---- MODULE Spec2Model ----
(***************************************************************************)
(* A model of the WhatsApp chat analyzer backend: the transcript parser    *)
(* (analysis_utils.go), the statistics engine (calculateChatStatistics),   *)
(* the request orchestrator AnalyzeChat, the HTTP handler analyzeHandler,  *)
(* the AI worker pool (main.go) and the LLM client invokeGroq.             *)
(*                                                                         *)
(* The specifications share the definitions of the pure functions:        *)
(*   Spec       the worker pool, the requests and their contexts, shutdown *)
(*   SpecLive   Spec up to the end of the process, with fair workers       *)
(*   SpecParse  preprocessMessages scanning one upload line by line,       *)
(*              followed by the composition of the AnalysisResult          *)
(*   SpecStats  the single pass of calculateChatStatistics                 *)
(*   SpecRace   the statistics pass beside the sort of the topic segmenter *)
(*   SpecBreak  calculatePercentile and calculateDynamicConvoBreak         *)
(*   SpecKeys   the key-rotating LLM client of whatsbackend                *)
(***************************************************************************)
EXTENDS Integers, Sequences, FiniteSets, TLC

VARIABLES
    \* ---- Spec: pool, requests, contexts
    aiTaskQueue,          \* the buffered channel of tasks (request ids), FIFO
    queueClosed,          \* close(aiTaskQueue) has happened
    srv,                  \* the HTTP server: "serving" until srv.Shutdown
    activeAICallsCount,   \* the process-wide atomic counter
    req,                  \* per request: the locals of analyzeHandler/AnalyzeChat
    ctx,                  \* per request: the state of analysisCtx
    resultChan,           \* per request: the single-slot result channel
    worker,               \* per worker: position in aiWorker / invokeGroq
    \* ---- SpecParse: preprocessMessages on one upload
    upload,               \* the lines of the uploaded file
    pp,                   \* the locals of preprocessMessages
    \* ---- SpecStats: calculateChatStatistics on one sequence
    st,                   \* the locals of calculateChatStatistics
    \* ---- SpecRace: groupMessagesByTopic beside the statistics goroutine
    sorter,               \* the locals of sort.SliceStable in groupMessagesByTopic
    \* ---- SpecKeys: the key-rotating LLM client
    keys,                 \* the configured keys and currentPrimaryKeyIndex
    client,               \* per call: the locals of AnalyzeMessagesWithLLM
    \* ---- SpecBreak: calculateDynamicConvoBreak and calculatePercentile
    brk                   \* the input and the value returned

poolVars  == <<aiTaskQueue, queueClosed, srv, activeAICallsCount, req, ctx, resultChan, worker>>
parseVars == <<upload, pp>>
statVars  == <<st>>
sortVars  == <<sorter>>
keyVars   == <<keys, client>>
breakVars == <<brk>>
vars      == <<aiTaskQueue, queueClosed, srv, activeAICallsCount, req, ctx, resultChan,
               worker, upload, pp, st, sorter, keys, client, brk>>

(***************************************************************************)
(* Bounds of the model and constants of the program.                       *)
(***************************************************************************)
NumReq == 2
MaxConcurrentAICalls == 1
MaxLines == 3
MaxMsgs == 3
NumSenders == 3
MaxSample == 4
MaxGaps == 21
MaxPrimaryKeys == 2

retryAttempts == 2
maxUsersForPeopleBlock == 15
maxLinesToSniff == 100
\* MAX_UPLOAD_SIZE_MB when unset; body sizes are counted in MB
maxUploadSizeMB == 25
\* the number of eligible gaps below which the default break is returned
minResponseTimes == 20

Requests == 1..NumReq
Workers  == 1..MaxConcurrentAICalls
Senders  == 1..NumSenders

Min(a, b) == IF a < b THEN a ELSE b
Max(a, b) == IF a > b THEN a ELSE b

RECURSIVE SetSum(_, _)
SetSum(f, S) == IF S = {} THEN 0
                ELSE LET x == CHOOSE y \in S : TRUE IN f[x] + SetSum(f, S \ {x})

(***************************************************************************)
(* time.Time: a civil date and time of day.  Sub, Format and Hour are      *)
(* computed from the civil fields.                                         *)
(***************************************************************************)
IsLeap(y) == (y % 4 = 0 /\ y % 100 # 0) \/ y % 400 = 0

DaysIn(m, y) ==
    IF m = 2 THEN (IF IsLeap(y) THEN 29 ELSE 28)
    ELSE IF m \in {4, 6, 9, 11} THEN 30 ELSE 31

RECURSIVE DaysBeforeMonth(_, _)
DaysBeforeMonth(m, y) == IF m <= 1 THEN 0 ELSE DaysIn(m - 1, y) + DaysBeforeMonth(m - 1, y)

RECURSIVE DaysBeforeYear(_)
DaysBeforeYear(y) == IF y <= 2000 THEN 0
                     ELSE (IF IsLeap(y - 1) THEN 366 ELSE 365) + DaysBeforeYear(y - 1)

\* days since 2000-01-01 (the model's uploads are dated 2000 or later)
DayNumber(t) == DaysBeforeYear(t.y) + DaysBeforeMonth(t.mo, t.y) + (t.d - 1)

SecOfDay(t) == t.h * 3600 + t.mi * 60 + t.s

\* t.Sub(u).Seconds()
SubSeconds(t, u) == (DayNumber(t) - DayNumber(u)) * 86400 + SecOfDay(t) - SecOfDay(u)

\* t.Format("2006-01-02") and t.Format("2006-01"), kept as tuples (they are
\* compared and sorted as strings of fixed width, i.e. lexicographically)
FormatDate(t)  == <<t.y, t.mo, t.d>>
FormatMonth(t) == <<t.y, t.mo>>
MonthIndex(m)  == m[1] * 12 + (m[2] - 1)

\* integer division truncating toward zero, as Go's int(float)
TruncDiv(a, b) == IF a >= 0 THEN a \div b ELSE -((-a) \div b)

(***************************************************************************)
(* The transcript.  A line of the upload is                                *)
(*   blank  empty after TrimSpace                                          *)
(*   text   non-blank, not matching timestampPattern (a continuation)      *)
(*   long   longer than bufio.Scanner's token limit: Scan stops with Err   *)
(*   msg    matches timestampPattern: date a/b/y, time, sender, message    *)
(* The date and time keep what the text holds: the two leading numbers     *)
(* with their digit counts, the year with its digit count, hour, minute,   *)
(* optional seconds (-1 when absent) and optional AM/PM.  The message is   *)
(* a sequence of tokens: "word" survives cleaning, "short" is shorter than *)
(* 3 characters, "stop" is a stop-word, "url" a link, "syspat" a system    *)
(* message pattern, "media" one of the attachment markers.                 *)
(***************************************************************************)
DT(p1, w1, p2, w2, yv, yw, h, mi, s, ap) ==
    [p1 |-> p1, w1 |-> w1, p2 |-> p2, w2 |-> w2, yv |-> yv, yw |-> yw,
     h |-> h, mi |-> mi, s |-> s, ap |-> ap]

BlankLine == [k |-> "blank"]
TextLine  == [k |-> "text"]
LongLine  == [k |-> "long"]
MsgLine(dt, sender, body) == [k |-> "msg", dt |-> dt, sender |-> sender, body |-> body]

\* a layout of timestampParseLayouts: "1/2" or "2/1" order, zero padding,
\* 2- or 4-digit year, seconds, AM/PM
Layout(dayFirst, padded, year4, secs, ampm) ==
    [dayFirst |-> dayFirst, padded |-> padded, year4 |-> year4, secs |-> secs, ampm |-> ampm]

LayoutBlock(dayFirst, ampm) ==
    << Layout(dayFirst, FALSE, FALSE, FALSE, ampm), Layout(dayFirst, FALSE, TRUE, FALSE, ampm),
       Layout(dayFirst, FALSE, FALSE, TRUE, ampm),  Layout(dayFirst, FALSE, TRUE, TRUE, ampm),
       Layout(dayFirst, TRUE, FALSE, FALSE, ampm),  Layout(dayFirst, TRUE, TRUE, FALSE, ampm),
       Layout(dayFirst, TRUE, FALSE, TRUE, ampm),   Layout(dayFirst, TRUE, TRUE, TRUE, ampm) >>

\* US style with AM/PM, European style 24-hour, European style with AM/PM
timestampParseLayouts ==
    LayoutBlock(FALSE, TRUE) \o LayoutBlock(TRUE, FALSE) \o LayoutBlock(TRUE, TRUE)

\* time.Parse(layout, dateStr + " " + timeCleaned)
TimeParse(layout, dt) ==
    LET month == IF layout.dayFirst THEN dt.p2 ELSE dt.p1
        day   == IF layout.dayFirst THEN dt.p1 ELSE dt.p2
        year  == IF layout.year4 THEN dt.yv
                 ELSE IF dt.yv >= 69 THEN 1900 + dt.yv ELSE 2000 + dt.yv
        hour  == IF ~layout.ampm THEN dt.h
                 ELSE IF dt.ap = "PM" /\ dt.h < 12 THEN dt.h + 12
                 ELSE IF dt.ap = "AM" /\ dt.h = 12 THEN 0
                 ELSE dt.h
        ok == /\ layout.padded => (dt.w1 = 2 /\ dt.w2 = 2)
              /\ dt.yw = (IF layout.year4 THEN 4 ELSE 2)
              /\ layout.secs <=> (dt.s # -1)
              /\ layout.ampm <=> (dt.ap # "")
              /\ month \in 1..12
              /\ day \in 1..31
              /\ day <= DaysIn(month, year)
              /\ dt.h <= (IF layout.ampm THEN 12 ELSE 23)
              /\ dt.mi <= 59
              /\ dt.s <= 59
    IN [ok |-> ok,
        ts |-> [y |-> year, mo |-> month, d |-> day, h |-> hour, mi |-> dt.mi,
                s |-> IF dt.s = -1 THEN 0 ELSE dt.s]]

\* a variant that takes the month-first layouts for the European ones
IsEuropeanStyleMonthFirst(layout) == ~layout.dayFirst

IsEuropeanStyle(layout) == layout.dayFirst
IsUSStyle(layout) == ~layout.dayFirst

\* the lines a bufio.Scanner delivers before it stops: all of them, or those
\* before the first line it cannot hold
Scanned(lines) ==
    LET tooLong == {i \in DOMAIN lines : lines[i].k = "long"}
    IN IF tooLong = {} THEN lines
       ELSE SubSeq(lines, 1, (CHOOSE i \in tooLong : \A j \in tooLong : i <= j) - 1)

ScannerErr(lines) == \E i \in DOMAIN lines : lines[i].k = "long"

RECURSIVE Eliminate(_, _)
Eliminate(candidateLayouts, sampleLines) ==
    IF sampleLines = <<>> \/ candidateLayouts = <<>> THEN candidateLayouts
    ELSE LET Valid(l) == TimeParse(l, Head(sampleLines).dt).ok
         IN Eliminate(SelectSeq(candidateLayouts, Valid), Tail(sampleLines))

sniffTimestampLayouts(lines, allLayouts, maxLines) ==
    LET prefix == SubSeq(lines, 1, Min(maxLines, Len(lines)))
        IsSample(l) == l.k = "msg"
        sampleLines == SelectSeq(Scanned(prefix), IsSample)
        candidateLayouts == Eliminate(allLayouts, sampleLines)
        europeanStyleLayouts == SelectSeq(candidateLayouts, IsEuropeanStyle)
        usStyleLayouts == SelectSeq(candidateLayouts, IsUSStyle)
    IN IF ScannerErr(prefix) THEN [err |-> TRUE, layouts |-> <<>>]
       ELSE IF sampleLines = <<>> THEN [err |-> TRUE, layouts |-> <<>>]
       ELSE IF candidateLayouts = <<>> THEN [err |-> TRUE, layouts |-> <<>>]
       ELSE IF Len(candidateLayouts) > 1 /\ europeanStyleLayouts # <<>>
            THEN [err |-> FALSE, layouts |-> europeanStyleLayouts]
       ELSE IF Len(candidateLayouts) > 1 /\ usStyleLayouts # <<>>
            THEN [err |-> FALSE, layouts |-> usStyleLayouts]
       ELSE [err |-> FALSE, layouts |-> candidateLayouts]

\* the layouts the main pass uses
ChooseLayouts(lines) ==
    LET sniffed == sniffTimestampLayouts(lines, timestampParseLayouts, maxLinesToSniff)
    IN IF sniffed.err \/ sniffed.layouts = <<>> THEN timestampParseLayouts
       ELSE sniffed.layouts

IsSystemMessage(body) == \E i \in DOMAIN body : body[i] = "syspat"
IsMedia(body) == \E i \in DOMAIN body : body[i] = "media"

cleanTextRemoveStopwords(body) ==
    LET Keeps(tok) == tok = "word" IN SelectSeq(body, Keeps)

\* the first layout of the list that passes the seconds/AM-PM pre-check and parses
RECURSIVE FirstParse(_, _)
FirstParse(layouts, dt) ==
    IF layouts = <<>> THEN [ok |-> FALSE]
    ELSE LET layout == Head(layouts)
             skip == (layout.secs # (dt.s # -1)) \/ (layout.ampm # (dt.ap # ""))
             parsed == TimeParse(layout, dt)
         IN IF ~skip /\ parsed.ok THEN [ok |-> TRUE, ts |-> parsed.ts, layout |-> layout]
            ELSE FirstParse(Tail(layouts), dt)

ParsedMessage(ts, sender, cleaned, layout) ==
    [Timestamp |-> ts, Sender |-> sender, CleanedMessage |-> cleaned, dayFirst |-> layout.dayFirst]

\* a variant that counts a line only once its header has matched
ScanLineCountingHeaders(p, line) ==
    LET read == [p EXCEPT !.pos = @ + 1]
        counted == [read EXCEPT !.rawMessageCount = @ + 1]
        parse == FirstParse(p.layouts, line.dt)
        cleanedMessage == cleanTextRemoveStopwords(line.body)
    IN IF line.k # "msg" THEN read
       ELSE IF IsSystemMessage(line.body) \/ IsMedia(line.body) THEN counted
       ELSE IF ~parse.ok THEN counted
       ELSE IF cleanedMessage # <<>>
            THEN [counted EXCEPT !.messagesData =
                     Append(@, ParsedMessage(parse.ts, line.sender, cleanedMessage, parse.layout))]
       ELSE counted

\* one iteration of the main scanning loop of preprocessMessages; p.pos is the
\* number of lines the scanner has delivered
ScanLine(p, line) ==
    LET read == [p EXCEPT !.pos = @ + 1]
        counted == [read EXCEPT !.rawMessageCount = @ + 1]
        parse == FirstParse(p.layouts, line.dt)
        cleanedMessage == cleanTextRemoveStopwords(line.body)
    IN IF line.k = "blank" THEN read
       ELSE IF line.k # "msg" THEN counted
       ELSE IF IsSystemMessage(line.body) \/ IsMedia(line.body) THEN counted
       ELSE IF ~parse.ok THEN counted
       ELSE IF cleanedMessage # <<>>
            THEN [counted EXCEPT !.messagesData =
                     Append(@, ParsedMessage(parse.ts, line.sender, cleanedMessage, parse.layout))]
       ELSE counted

RECURSIVE ScanAll(_, _)
ScanAll(p, lines) ==
    IF p.pos >= Len(lines) THEN p ELSE ScanAll(ScanLine(p, lines[p.pos + 1]), lines)

\* preprocessMessages: (rawMessageCount, messagesData, err)
preprocessMessages(lines) ==
    LET p0 == [layouts |-> ChooseLayouts(lines), pos |-> 0, rawMessageCount |-> 0,
               messagesData |-> <<>>]
        p1 == ScanAll(p0, Scanned(lines))
    IN [rawMessageCount |-> p1.rawMessageCount, messagesData |-> p1.messagesData,
        err |-> ScannerErr(lines)]


(***************************************************************************)
(* The statistics engine.  Go maps are functions whose domain is the key   *)
(* set; m[k]++ on a missing key inserts 1.  The empty sender "" is 0.       *)
(* Percentages and minutes are kept in hundredths (two decimals).          *)
(* The word, emoji and weekday counters are left out: no property checked  *)
(* here reads them.                                                        *)
(***************************************************************************)
\* a nil pointer or slice, and a non-nil one
Nil == [nil |-> TRUE]
Some(x) == [nil |-> FALSE, v |-> x]

EmptyMap == <<>>
Get(m, k) == IF k \in DOMAIN m THEN m[k] ELSE 0
Inc(m, k) == IF k \in DOMAIN m THEN [m EXCEPT ![k] = @ + 1] ELSE m @@ (k :> 1)
IncNested(m, k1, k2) ==
    IF k1 \in DOMAIN m THEN [m EXCEPT ![k1] = Inc(@, k2)] ELSE m @@ (k1 :> (k2 :> 1))

\* math.Round(num/den) for num >= 0, den > 0: half away from zero
RoundDiv(num, den) == (2 * num + den) \div (2 * den)

\* a variant that rounds to one decimal
roundFloatOneDecimal(count, total) == RoundDiv(count * 1000, total) * 10

\* roundFloat(count*100/total, 2), in hundredths of a percent
roundFloat(count, total) == RoundDiv(count * 10000, total)

StatsInit ==
    [i |-> 0,
     userMessageCount |-> EmptyMap, userStartsConvo |-> EmptyMap,
     userFirstTexts |-> EmptyMap, hourlyMessageCount |-> EmptyMap,
     monthlyActivityByUser |-> EmptyMap, allMonths |-> {},
     userIgnoredCount |-> EmptyMap, interactionMatrix |-> EmptyMap,
     totalResponseTimeSeconds |-> 0, responseCount |-> 0,
     maxMonologueCount |-> 0, maxMonologueSender |-> 0,
     currentStreakCount |-> 0, currentStreakSender |-> 0,
     lastTimestamp |-> <<>>, lastSender |-> 0, lastDateStr |-> <<>>,
     convoStarts |-> <<>>]

\* the body of the loop over messagesData for index i (1-based)
StatsLoopBody(s, messagesData, convoBreakMinutes, i) ==
    LET msg == messagesData[i]
        isFirstMessage == (i = 1)
        timeDiff == IF isFirstMessage THEN 0 ELSE SubSeconds(msg.Timestamp, s.lastTimestamp)
        convoBroken == ~isFirstMessage /\ timeDiff > convoBreakMinutes * 60
        isNewConvo == isFirstMessage \/ convoBroken
        responds == ~isFirstMessage /\ ~convoBroken /\ s.lastSender # 0 /\ msg.Sender # s.lastSender
        eligible == responds /\ timeDiff > 5 /\ timeDiff < 12 * 3600
        currentDateStr == FormatDate(msg.Timestamp)
        monthStr == FormatMonth(msg.Timestamp)
        sameStreak == msg.Sender = s.currentStreakSender
        endsRecord == ~sameStreak /\ s.currentStreakSender # 0
                      /\ s.currentStreakCount > s.maxMonologueCount
    IN [s EXCEPT
          !.i = i,
          !.userStartsConvo = IF isNewConvo THEN Inc(@, msg.Sender) ELSE @,
          !.convoStarts = IF isNewConvo THEN Append(@, i) ELSE @,
          !.totalResponseTimeSeconds = IF eligible THEN @ + timeDiff ELSE @,
          !.responseCount = IF eligible THEN @ + 1 ELSE @,
          !.interactionMatrix = IF responds THEN IncNested(@, s.lastSender, msg.Sender) ELSE @,
          !.userMessageCount = Inc(@, msg.Sender),
          !.userFirstTexts = IF currentDateStr # s.lastDateStr THEN Inc(@, msg.Sender) ELSE @,
          !.lastDateStr = currentDateStr,
          !.maxMonologueCount = IF endsRecord THEN s.currentStreakCount ELSE @,
          !.maxMonologueSender = IF endsRecord THEN s.currentStreakSender ELSE @,
          !.currentStreakSender = msg.Sender,
          !.currentStreakCount = IF sameStreak THEN @ + 1 ELSE 1,
          !.hourlyMessageCount = Inc(@, msg.Timestamp.h),
          !.monthlyActivityByUser = IncNested(@, msg.Sender, monthStr),
          !.allMonths = @ \cup {monthStr},
          !.userIgnoredCount =
              IF i + 1 <= Len(messagesData) /\ messagesData[i + 1].Sender = msg.Sender
              THEN Inc(@, msg.Sender) ELSE @,
          !.lastSender = msg.Sender,
          !.lastTimestamp = msg.Timestamp]

MapTotal(m) == SetSum(m, DOMAIN m)

\* percentage map of a counter: empty when the total is 0
PercentageMap(counter) ==
    LET total == MapTotal(counter)
    IN IF total > 0 THEN [u \in DOMAIN counter |-> roundFloat(counter[u], total)]
       ELSE EmptyMap

\* the keys at which a counter is maximal: a range loop keeping the first
\* strictly greater value ends on one of them, which one depends on the
\* iteration order of the map
ArgMax(counter) == {k \in DOMAIN counter : \A j \in DOMAIN counter : counter[j] <= counter[k]}

RECURSIVE SortMonths(_)
SortMonths(S) ==
    IF S = {} THEN <<>>
    ELSE LET m == CHOOSE x \in S : \A y \in S : MonthIndex(x) <= MonthIndex(y)
         IN <<m>> \o SortMonths(S \ {m})

\* getMonthlyActivity: one series per user over the sorted keys of allMonths
getMonthlyActivity(monthlyActivityByUser, allMonths, allUsersList) ==
    IF allMonths = {} \/ allUsersList = {} THEN EmptyMap
    ELSE LET sortedMonths == SortMonths(allMonths)
         IN [user \in allUsersList |->
               [j \in DOMAIN sortedMonths |->
                  [X |-> sortedMonths[j],
                   Y |-> IF user \in DOMAIN monthlyActivityByUser
                         THEN Get(monthlyActivityByUser[user], sortedMonths[j])
                         ELSE 0]]]

\* daysActive: whole 24-hour periods between the first and the last record, plus one
DaysActive(messagesData) ==
    TruncDiv(SubSeconds(messagesData[Len(messagesData)].Timestamp,
                        messagesData[1].Timestamp), 86400) + 1

\* sort.Strings over the keys of a map: the result is the ascending sequence
\* whatever order the keys were listed in
RECURSIVE SortStrings(_)
SortStrings(S) ==
    IF S = {} THEN <<>>
    ELSE LET u == CHOOSE x \in S : \A y \in S : x <= y
         IN <<u>> \o SortStrings(S \ {u})

\* a variant that also emits the matrix of a single sender
formatInteractionMatrixFromOne(interactionMatrix, allUsersList) ==
    LET sortedUsers == SortStrings(allUsersList)
    IN IF Cardinality(allUsersList) < 1 THEN Nil
       ELSE Some(<<<<Nil>> \o sortedUsers>> \o
                 [i \in DOMAIN sortedUsers |->
                    <<sortedUsers[i]>> \o
                    [j \in DOMAIN sortedUsers |->
                       IF sortedUsers[i] \in DOMAIN interactionMatrix
                       THEN Get(interactionMatrix[sortedUsers[i]], sortedUsers[j])
                       ELSE 0]])

\* formatInteractionMatrix: nil for fewer than two users; otherwise a header
\* row (nil, then the sorted users) followed by one row per sorted user (the
\* user, then the count towards each sorted user)
formatInteractionMatrix(interactionMatrix, allUsersList) ==
    LET sortedUsers == SortStrings(allUsersList)
    IN IF Cardinality(allUsersList) <= 1 THEN Nil
       ELSE Some(<<<<Nil>> \o sortedUsers>> \o
                 [i \in DOMAIN sortedUsers |->
                    <<sortedUsers[i]>> \o
                    [j \in DOMAIN sortedUsers |->
                       IF sortedUsers[i] \in DOMAIN interactionMatrix
                       THEN Get(interactionMatrix[sortedUsers[i]], sortedUsers[j])
                       ELSE 0]])

\* what follows the loop; champ and peak are the keys the two range loops end on
StatsResult(s, messagesData, champ, peak) ==
    LET streakWins == s.currentStreakSender # 0 /\ s.currentStreakCount > s.maxMonologueCount
    IN [TotalMessages |-> Len(messagesData),
        DaysActive |-> DaysActive(messagesData),
        UserMessageCount |-> s.userMessageCount,
        MostActiveUsersPct |->
            [u \in DOMAIN s.userMessageCount |->
                roundFloat(s.userMessageCount[u], Len(messagesData))],
        ConversationStartersPct |-> PercentageMap(s.userStartsConvo),
        MostIgnoredUsersPct |-> PercentageMap(s.userIgnoredCount),
        FirstTextChampion |-> [User |-> champ, Count |-> s.userFirstTexts[champ]],
        LongestMonologue |->
            [User |-> IF streakWins THEN s.currentStreakSender ELSE s.maxMonologueSender,
             Count |-> IF streakWins THEN s.currentStreakCount ELSE s.maxMonologueCount],
        AverageResponseTimeMinutes |->
            IF s.responseCount > 0
            THEN RoundDiv(s.totalResponseTimeSeconds * 100, s.responseCount * 60) ELSE 0,
        PeakHour |-> peak,
        UserMonthlyActivity |->
            getMonthlyActivity(s.monthlyActivityByUser, s.allMonths, DOMAIN s.userMessageCount),
        UserInteractionMatrix |->
            formatInteractionMatrix(s.interactionMatrix, DOMAIN s.userMessageCount),
        interactionMatrix |-> s.interactionMatrix]

\* the loop over messagesData; s.i is the index of the last record processed
RECURSIVE StatsLoop(_, _, _)
StatsLoop(s, messagesData, convoBreakMinutes) ==
    IF s.i >= Len(messagesData) THEN s
    ELSE StatsLoop(StatsLoopBody(s, messagesData, convoBreakMinutes, s.i + 1),
                   messagesData, convoBreakMinutes)

\* calculateChatStatistics: the results it can return (one per iteration
\* order of the two range loops); an empty list is an error
calculateChatStatistics(messagesData, convoBreakMinutes) ==
    IF messagesData = <<>> THEN {[err |-> TRUE]}
    ELSE LET s == StatsLoop(StatsInit, messagesData, convoBreakMinutes)
         IN {[err |-> FALSE, stats |-> StatsResult(s, messagesData, champ, peak)] :
                champ \in ArgMax(s.userFirstTexts), peak \in ArgMax(s.hourlyMessageCount)}


(***************************************************************************)
(* calculateDynamicConvoBreak and calculatePercentile.  Gaps are kept in   *)
(* seconds; the percentile is returned in hundredths of a second.          *)
(***************************************************************************)
RECURSIVE InsertSorted(_, _)
InsertSorted(x, s) ==
    IF s = <<>> THEN <<x>>
    ELSE IF x <= Head(s) THEN <<x>> \o s
    ELSE <<Head(s)>> \o InsertSorted(x, Tail(s))

RECURSIVE SortFloat64s(_)
SortFloat64s(s) == IF s = <<>> THEN <<>> ELSE InsertSorted(Head(s), SortFloat64s(Tail(s)))

calculatePercentile(sortedData, p) ==
    LET n == Len(sortedData)
        rank100 == p * (n + 1)
        k == rank100 \div 100
        d100 == rank100 % 100
    IN IF n = 0 THEN 0
       ELSE IF p <= 0 THEN sortedData[1] * 100
       ELSE IF p >= 100 THEN sortedData[n] * 100
       ELSE IF k = 0 THEN sortedData[1] * 100
       ELSE IF k >= n THEN sortedData[n] * 100
       ELSE sortedData[k] * 100 + d100 * (sortedData[k + 1] - sortedData[k + 1])

\* the cross-sender gaps strictly between 5 seconds and 12 hours, in file order
RECURSIVE ResponseTimes(_, _)
ResponseTimes(messagesData, i) ==
    IF i > Len(messagesData) THEN <<>>
    ELSE LET diff == SubSeconds(messagesData[i].Timestamp, messagesData[i - 1].Timestamp)
             take == messagesData[i].Sender # messagesData[i - 1].Sender
                     /\ diff > 5 /\ diff < 12 * 3600
         IN (IF take THEN <<diff>> ELSE <<>>) \o ResponseTimes(messagesData, i + 1)

calculateDynamicConvoBreak(messagesData, defaultBreakMinutes, minBreak, maxBreak) ==
    LET responseTimes == ResponseTimes(messagesData, 2)
        p85 == calculatePercentile(SortFloat64s(responseTimes), 85)
        dynamicBreak6000 == p85 + 30 * 6000
        clamped == Max(minBreak * 6000, Min(dynamicBreak6000, maxBreak * 6000))
    IN IF Len(responseTimes) < minResponseTimes THEN defaultBreakMinutes
       ELSE RoundDiv(clamped, 6000)

\* groupMessagesByTopic after its sort: the indices at which the loop over
\* the sorted records opens a topic (the first record, and every record whose
\* distance to its predecessor reaches gapDuration); gaps are in seconds
TopicStarts(data, gapSeconds) ==
    {i \in DOMAIN data :
        i = 1 \/ SubSeconds(data[i].Timestamp, data[i - 1].Timestamp) >= gapSeconds}

(***************************************************************************)
(* Errors and results.  An error value keeps what errors.Is can see of it: *)
(* which context error it wraps, if any.                                   *)
(***************************************************************************)
NoError == [kind |-> "nil", wraps |-> "none"]
Err(kind, wraps) == [kind |-> kind, wraps |-> wraps]
\* errors.Is(e, context.Canceled) || errors.Is(e, context.DeadlineExceeded)
IsContextErr(e) == e.wraps \in {"canceled", "deadline"}
\* the places of invokeGroq that return because the request context is done
CtxEnded(e) ==
    e.kind \in {"ctx before call", "ctx after previous error", "ctx during retry wait",
                "ctx during HTTP call"}


\* the composition of the AnalysisResult at the end of AnalyzeChat
ComposeResult(rawMessageCount, statsOut, aiFinalResult, aiErr) ==
    LET statsResult == IF statsOut.err THEN Nil
                       ELSE Some([statsOut.stats EXCEPT !.TotalMessages = rawMessageCount])
        \* messagesData has been set to nil by now, so its length is 0
        filled == IF ~statsResult.nil THEN statsResult
                  ELSE IF rawMessageCount > 0 THEN Some([TotalMessages |-> rawMessageCount])
                  ELSE Nil
        statsMsg == IF statsOut.err THEN <<"Statistics failed">> ELSE <<>>
        aiMsg == IF aiErr # NoError /\ ~IsContextErr(aiErr)
                 THEN <<"AI analysis failed">> ELSE <<>>
    IN [TotalMessages |-> rawMessageCount,
        Stats |-> IF statsOut.err THEN Nil ELSE filled,
        AIAnalysis |-> IF aiFinalResult # <<>> /\ aiErr = NoError THEN Some(aiFinalResult) ELSE Nil,
        Error |-> statsMsg \o aiMsg]

\* the result of the early return when no line was counted
NoMessagesResult ==
    [TotalMessages |-> 0, Stats |-> Nil, AIAnalysis |-> Nil, Error |-> <<"No messages found">>]

UserSet(messagesData) == {messagesData[i].Sender : i \in DOMAIN messagesData}

\* a variant that only asks for a sender, as the people block of the prompt does
shouldRunAINonEmpty(userCount) == userCount > 0 /\ userCount <= maxUsersForPeopleBlock

shouldRunAI(userCount) == userCount > 1 /\ userCount <= maxUsersForPeopleBlock


(***************************************************************************)
(* Spec: the upload size middleware, analyzeHandler / AnalyzeChat per      *)
(* request, the AI task queue, the workers, invokeGroq and the shutdown    *)
(* sequence of main.                                                       *)
(*                                                                         *)
(* The uploads of this specification: one per class of sender count the    *)
(* orchestrator distinguishes, an upload of system lines only, an empty    *)
(* one and one the scanner cannot read.                                    *)
(***************************************************************************)
PoolDT == DT(2, 1, 3, 1, 24, 2, 10, 0, -1, "")

SenderLines(n) == [i \in 1..n |-> MsgLine(PoolDT, i, <<"word">>)]

PoolUploads ==
    { SenderLines(n) : n \in {0, 1, 2, maxUsersForPeopleBlock, maxUsersForPeopleBlock + 1} }
    \cup { <<MsgLine(PoolDT, 1, <<"syspat">>)>>, <<LongLine>> }

\* the head of AnalyzeChat on one upload: preprocessMessages, the sender set,
\* the conversation break, and what the statistics goroutine can come back with
Analyzed(u) ==
    LET pre == preprocessMessages(u)
    IN [err |-> pre.err,
        rawMessageCount |-> pre.rawMessageCount,
        userCount |-> Cardinality(UserSet(pre.messagesData)),
        statsOuts |-> calculateChatStatistics(pre.messagesData,
                         calculateDynamicConvoBreak(pre.messagesData, 120, 30, 300))]

PoolInputs == {Analyzed(u) : u \in PoolUploads}

\* limitUploadSizeMiddleware on a checked path: the status it aborts with, or
\* 0 when it hands the request on; contentLength is -1 when the request
\* declares none (chunked transfer)
limitUploadSizeMiddleware(contentLength, maxSizeBytes) ==
    IF contentLength > maxSizeBytes THEN 413 ELSE 0

\* the POSTs to /analyze/: a body within the limit with any of the uploads,
\* or a body of 26 MB (a one-sender chat), each with its length declared or not
PoolRequests ==
    {[size |-> 1, contentLength |-> c, a |-> a] : c \in {1, -1}, a \in PoolInputs}
    \cup {[size |-> 26, contentLength |-> c, a |-> Analyzed(SenderLines(1))] : c \in {26, -1}}

IdleReq ==
    [pc |-> "idle", rawMessageCount |-> 0, userCount |-> 0, statsOut |-> [err |-> TRUE],
     hasChan |-> FALSE, aiErr |-> NoError,
     retErr |-> "none", result |-> Nil, status |-> 0,
     enqueued |-> FALSE, bodySize |-> 0]

IdleWorker ==
    [pc |-> "idle", task |-> 0, attempt |-> 0, calls |-> 0, lastErr |-> NoError,
     result |-> <<>>, err |-> NoError]

EmptyChan == [buf |-> <<>>, closed |-> FALSE, sends |-> 0]

\* the parts of the state a specification does not use
SortOff  == sorter = [pc |-> "off"]
KeysOff  == keys = [pc |-> "off"] /\ client = [pc |-> "off"]
BreakOff == brk = [pc |-> "off"]

Init ==
    /\ aiTaskQueue = <<>>
    /\ queueClosed = FALSE
    /\ srv = "serving"
    /\ activeAICallsCount = 0
    /\ req = [r \in Requests |-> IdleReq]
    /\ ctx = [r \in Requests |-> "live"]
    /\ resultChan = [r \in Requests |-> EmptyChan]
    /\ worker = [w \in Workers |-> IdleWorker]
    /\ upload = <<>>
    /\ pp = [pc |-> "off"]
    /\ st = [pc |-> "off"]
    /\ SortOff /\ KeysOff /\ BreakOff

\* ---- the request context: cancelled by the client, or its deadline passes
CtxCancel(r) ==
    /\ req[r].pc \notin {"idle", "done"}
    /\ ctx[r] = "live"
    /\ ctx' = [ctx EXCEPT ![r] = "canceled"]
    /\ UNCHANGED <<aiTaskQueue, queueClosed, srv, activeAICallsCount, req, resultChan, worker, parseVars, statVars, sortVars, keyVars, breakVars>>

CtxDeadline(r) ==
    /\ req[r].pc \notin {"idle", "done"}
    /\ ctx[r] = "live"
    /\ ctx' = [ctx EXCEPT ![r] = "deadline"]
    /\ UNCHANGED <<aiTaskQueue, queueClosed, srv, activeAICallsCount, req, resultChan, worker, parseVars, statVars, sortVars, keyVars, breakVars>>

\* ---- limitUploadSizeMiddleware, analyzeHandler, AnalyzeChat
\* AnalyzeChat from its call to the enqueue select, or to its return when the
\* AI branch is skipped (the statistics goroutine is joined on the way)
AnalyzeChatHead(q, r, a) ==
    IF a.err
    THEN {[q EXCEPT ![r].pc = "returned", ![r].retErr = "preprocess"]}
    ELSE IF a.rawMessageCount = 0
    THEN {[q EXCEPT ![r].pc = "returned", ![r].result = Some(NoMessagesResult)]}
    ELSE {IF shouldRunAI(a.userCount)
          THEN [q EXCEPT ![r].pc = "enqueue",
                         ![r].rawMessageCount = a.rawMessageCount,
                         ![r].userCount = a.userCount,
                         ![r].statsOut = statsOut,
                         ![r].hasChan = TRUE]
          ELSE [q EXCEPT ![r].pc = "returned",
                         ![r].rawMessageCount = a.rawMessageCount,
                         ![r].userCount = a.userCount,
                         ![r].result = Some(ComposeResult(a.rawMessageCount, statsOut,
                                                          <<>>, NoError))] :
          statsOut \in a.statsOuts}

\* a request arrives: the middleware aborts it with 413 or hands it to
\* analyzeHandler, which calls AnalyzeChat on the uploaded file
Receive(r) ==
    /\ srv = "serving"
    /\ req[r].pc = "idle"
    /\ IF r = 1 THEN TRUE ELSE req[r - 1].pc # "idle"
    /\ \E b \in PoolRequests :
         LET aborted == limitUploadSizeMiddleware(b.contentLength, maxUploadSizeMB)
             arrived == [req EXCEPT ![r].bodySize = b.size]
         IN IF aborted # 0
            THEN req' = [arrived EXCEPT ![r].pc = "done", ![r].status = aborted]
            ELSE req' \in AnalyzeChatHead(arrived, r, b.a)
    /\ UNCHANGED <<aiTaskQueue, queueClosed, srv, activeAICallsCount, ctx, resultChan, worker, parseVars, statVars, sortVars, keyVars, breakVars>>

\* the composition of the result once the statistics goroutine has been joined
Returned(q, r, aiFinalResult, aiErr) ==
    [q EXCEPT ![r].pc = "returned", ![r].aiErr = aiErr, ![r].statsOut = [err |-> TRUE],
              ![r].result = Some(ComposeResult(q[r].rawMessageCount, q[r].statsOut,
                                               aiFinalResult, aiErr))]

\* select { case aiQueue <- task: ... }, then wg.Wait()
EnqueueSend(r) ==
    /\ req[r].pc = "enqueue"
    /\ ~queueClosed
    /\ Len(aiTaskQueue) < MaxConcurrentAICalls
    /\ aiTaskQueue' = Append(aiTaskQueue, r)
    /\ req' = [req EXCEPT ![r].pc = "await", ![r].enqueued = TRUE]
    /\ UNCHANGED <<queueClosed, srv, activeAICallsCount, ctx, resultChan, worker, parseVars, statVars, sortVars, keyVars, breakVars>>

\* select { case aiQueue <- task: ... } on the closed channel: the send
\* panics, the deferred analysisCancel() runs and gin's recovery answers 500
EnqueuePanic(r) ==
    /\ req[r].pc = "enqueue"
    /\ queueClosed
    /\ req' = [req EXCEPT ![r] =
                 [IdleReq EXCEPT !.pc = "done", !.status = 500, !.retErr = "panic",
                                 !.hasChan = req[r].hasChan,
                                 !.bodySize = req[r].bodySize]]
    /\ ctx' = [ctx EXCEPT ![r] = IF @ = "live" THEN "canceled" ELSE @]
    /\ UNCHANGED <<aiTaskQueue, queueClosed, srv, activeAICallsCount, resultChan, worker, parseVars, statVars, sortVars, keyVars, breakVars>>

\* select { case <-ctx.Done(): aiErr = ctx.Err() }, then wg.Wait() and the
\* composition: aiResultChan is nil, so the second select is skipped
EnqueueCtxDone(r) ==
    /\ req[r].pc = "enqueue"
    /\ ctx[r] # "live"
    /\ req' = Returned(req, r, <<>>, Err("ctx", ctx[r]))
    /\ UNCHANGED <<aiTaskQueue, queueClosed, srv, activeAICallsCount, ctx, resultChan, worker, parseVars, statVars, sortVars, keyVars, breakVars>>

\* select { case <-sendTimer.C: return nil, ErrAIQueueTimeout }: the timer
\* runs from before the select, so it can win whenever the select is reached
\* a variant that gives up with an error of no particular kind
EnqueueTimeoutAsFailure(q, r) ==
    [q EXCEPT ![r].pc = "returned", ![r].retErr = "other", ![r].statsOut = [err |-> TRUE]]

EnqueueTimeoutBranch(q, r) ==
    [q EXCEPT ![r].pc = "returned", ![r].retErr = "queueTimeout", ![r].statsOut = [err |-> TRUE]]

EnqueueTimeout(r) ==
    /\ req[r].pc = "enqueue"
    /\ req' = EnqueueTimeoutBranch(req, r)
    /\ UNCHANGED <<aiTaskQueue, queueClosed, srv, activeAICallsCount, ctx, resultChan, worker, parseVars, statVars, sortVars, keyVars, breakVars>>

\* select { case resultTuple, ok := <-aiResultChan: ... } with a value
AwaitResult(r) ==
    /\ req[r].pc = "await"
    /\ resultChan[r].buf # <<>>
    /\ req' = Returned(req, r, Head(resultChan[r].buf).result, Head(resultChan[r].buf).err)
    /\ resultChan' = [resultChan EXCEPT ![r].buf = <<>>]
    /\ UNCHANGED <<aiTaskQueue, queueClosed, srv, activeAICallsCount, ctx, worker, parseVars, statVars, sortVars, keyVars, breakVars>>

\* ... on a closed, empty channel
AwaitClosed(r) ==
    /\ req[r].pc = "await"
    /\ resultChan[r].buf = <<>>
    /\ resultChan[r].closed
    /\ req' = Returned(req, r, <<>>, Err("closed", "none"))
    /\ UNCHANGED <<aiTaskQueue, queueClosed, srv, activeAICallsCount, ctx, resultChan, worker, parseVars, statVars, sortVars, keyVars, breakVars>>

\* select { case <-ctx.Done(): aiErr = ctx.Err() }
AwaitCtxDone(r) ==
    /\ req[r].pc = "await"
    /\ ctx[r] # "live"
    /\ req' = Returned(req, r, <<>>, Err("ctx", ctx[r]))
    /\ UNCHANGED <<aiTaskQueue, queueClosed, srv, activeAICallsCount, ctx, resultChan, worker, parseVars, statVars, sortVars, keyVars, breakVars>>

\* ---- analyzeHandler after AnalyzeChat has returned
\* a variant that looks at the result before it looks at the context
HandlerStatusResultFirst(retErr, result, c) ==
    IF retErr = "queueTimeout" THEN 429
    ELSE IF retErr # "none" THEN 500
    ELSE IF ~result.nil THEN 200
    ELSE IF c = "deadline" THEN 504
    ELSE 500

HandlerStatus(retErr, result, c) ==
    IF retErr = "queueTimeout" THEN 429
    ELSE IF retErr # "none" THEN 500
    ELSE IF c = "deadline" THEN 504
    ELSE IF c # "live" THEN 500
    ELSE IF ~result.nil THEN 200
    ELSE 500

\* the response, and the deferred analysisCancel(); the result is written to
\* the response and dropped
Respond(r) ==
    /\ req[r].pc = "returned"
    /\ req' = [req EXCEPT ![r] =
                 [IdleReq EXCEPT !.pc = "done",
                                 !.status = HandlerStatus(req[r].retErr, req[r].result, ctx[r]),
                                 !.retErr = req[r].retErr,
                                 !.hasChan = req[r].hasChan,
                                 !.enqueued = req[r].enqueued,
                                 !.bodySize = req[r].bodySize]]
    /\ ctx' = [ctx EXCEPT ![r] = IF @ = "live" THEN "canceled" ELSE @]
    /\ UNCHANGED <<aiTaskQueue, queueClosed, srv, activeAICallsCount, resultChan, worker, parseVars, statVars, sortVars, keyVars, breakVars>>


\* ---- aiWorker, AnalyzeMessagesWithLLM, invokeGroq
\* a variant that loses the decrements
AddInt32IncrementsOnly(addr, delta) == IF delta < 0 THEN addr ELSE addr + delta

\* atomic.AddInt32 without its return value
AddInt32(addr, delta) == addr + delta

\* for task := range tasks
Dequeue(w) ==
    /\ worker[w].pc = "idle"
    /\ aiTaskQueue # <<>>
    /\ worker' = [worker EXCEPT ![w] = [IdleWorker EXCEPT !.pc = "inc", !.task = Head(aiTaskQueue)]]
    /\ aiTaskQueue' = Tail(aiTaskQueue)
    /\ UNCHANGED <<queueClosed, srv, activeAICallsCount, req, ctx, resultChan, parseVars, statVars, sortVars, keyVars, breakVars>>

\* atomic.AddInt32(&activeAICallsCount, 1), then AnalyzeMessagesWithLLM up to
\* invokeGroq; it returns ("", nil) without a call when no API key is
\* configured or the stratified sample is empty
StartCall(w) ==
    /\ worker[w].pc = "inc"
    /\ activeAICallsCount' = AddInt32(activeAICallsCount, 1)
    /\ \/ worker' = [worker EXCEPT ![w].pc = "check", ![w].attempt = 1]
       \/ worker' = [worker EXCEPT ![w].pc = "dec"]
    /\ UNCHANGED <<aiTaskQueue, queueClosed, srv, req, ctx, resultChan, parseVars, statVars, sortVars, keyVars, breakVars>>

\* a return of invokeGroq; attempt is the iteration it returns from and calls
\* the number of times httpClient.Do has been called
Finish(wk, result, err) ==
    [wk EXCEPT !.pc = "dec", !.lastErr = NoError, !.result = result, !.err = err]

\* the return of AnalyzeMessagesWithLLM, which wraps the error of invokeGroq
\* with %w; the kind of the wrapped error keeps whether the request context
\* ended the call ("ctx") or something else did
WrapAIError(err) ==
    IF err = NoError THEN NoError
    ELSE Err(IF CtxEnded(err) THEN "ctx" ELSE "AI analysis failed", err.wraps)

\* the error invokeGroq returns when it finds the context done before an attempt
CtxBeforeAttemptErr(lastErr, c) ==
    IF lastErr # NoError THEN Err("ctx after previous error", lastErr.wraps)
    ELSE Err("ctx before call", c)

\* the select on ctx.Done() at the top of the attempt loop
CheckCtx(w) ==
    /\ worker[w].pc = "check"
    /\ LET wk == worker[w]
           c == ctx[wk.task]
       IN worker' = [worker EXCEPT ![w] =
            IF c # "live" THEN Finish(wk, <<>>, CtxBeforeAttemptErr(wk.lastErr, c))
            ELSE IF wk.attempt > 1 THEN [wk EXCEPT !.pc = "retrywait"]
            ELSE [wk EXCEPT !.pc = "http"]]
    /\ UNCHANGED <<aiTaskQueue, queueClosed, srv, activeAICallsCount, req, ctx, resultChan, parseVars, statVars, sortVars, keyVars, breakVars>>

\* select { case <-time.After(waitDuration): ... }: the timer is started
\* when the select is entered and the select takes the first of the two
\* events, so the wait elapses only while ctx.Done() is still open
RetryWaitElapsed(w) ==
    /\ worker[w].pc = "retrywait"
    /\ ctx[worker[w].task] = "live"
    /\ worker' = [worker EXCEPT ![w].pc = "http"]
    /\ UNCHANGED <<aiTaskQueue, queueClosed, srv, activeAICallsCount, req, ctx, resultChan, parseVars, statVars, sortVars, keyVars, breakVars>>

\* a variant whose message leaves the last API error out
RetryWaitCtxErrWithoutLast(lastErr, c) ==
    [kind |-> "ctx during retry wait", wraps |-> c, last |-> "nil"]

\* "context cancelled during retry wait ...: %w (last API error: %v)"
RetryWaitCtxErr(lastErr, c) ==
    [kind |-> "ctx during retry wait", wraps |-> c, last |-> lastErr.kind]

\* select { case <-ctx.Done(): ... } during the retry wait
RetryWaitCtxDone(w) ==
    /\ worker[w].pc = "retrywait"
    /\ ctx[worker[w].task] # "live"
    /\ worker' = [worker EXCEPT ![w] =
                    Finish(@, <<>>, RetryWaitCtxErr(@.lastErr, ctx[worker[w].task]))]
    /\ UNCHANGED <<aiTaskQueue, queueClosed, srv, activeAICallsCount, req, ctx, resultChan, parseVars, statVars, sortVars, keyVars, breakVars>>

\* a variant that stops one attempt later
RetryableOnceMore(wk, lastErr) ==
    IF wk.attempt = retryAttempts + 1 THEN Finish(wk, <<>>, lastErr)
    ELSE [wk EXCEPT !.pc = "check", !.attempt = @ + 1, !.lastErr = lastErr]

\* a failed attempt that may be retried: return on the last attempt, else continue
Retryable(wk, lastErr) ==
    IF wk.attempt = retryAttempts THEN Finish(wk, <<>>, lastErr)
    ELSE [wk EXCEPT !.pc = "check", !.attempt = @ + 1, !.lastErr = lastErr]

\* strings are sequences of characters
RECURSIVE TrimLeft(_)
TrimLeft(str) == IF str # <<>> /\ Head(str) = " " THEN TrimLeft(Tail(str)) ELSE str

RECURSIVE TrimRight(_)
TrimRight(str) ==
    IF str # <<>> /\ str[Len(str)] = " " THEN TrimRight(SubSeq(str, 1, Len(str) - 1)) ELSE str

TrimSpace(str) == TrimRight(TrimLeft(str))
HasPrefix(str, c) == str # <<>> /\ str[1] = c
HasSuffix(str, c) == str # <<>> /\ str[Len(str)] = c

\* json.Unmarshal into a json.RawMessage succeeds on a JSON document, white
\* space around it allowed; over the characters used here these are {} and []
JSONUnmarshalOK(str) == TrimSpace(str) \in {<<"{", "}">>, <<"[", "]">>}

\* the non-empty contents of the first choice of a 200 response
Contents ==
    { <<"{", "}">>, <<" ", "{", "}", " ">>, <<"{", "x", "}">>, <<"{", "}", "{", "}">>,
      <<"[", "]">>, <<"{", "}", "x">>, <<"x">>, <<" ">> }

\* a variant that does not look at the error of json.Unmarshal
ValidateContentUnchecked(wk, content) ==
    LET trimmedContent == TrimSpace(content)
    IN IF HasPrefix(trimmedContent, "{") /\ HasSuffix(trimmedContent, "}")
       THEN Finish(wk, trimmedContent, NoError)
       ELSE Finish(wk, <<>>, Err("does not look like JSON", "none"))

\* the validation of the content of a 200 response
ValidateContent(wk, content) ==
    LET trimmedContent == TrimSpace(content)
    IN IF HasPrefix(trimmedContent, "{") /\ HasSuffix(trimmedContent, "}")
       THEN IF JSONUnmarshalOK(trimmedContent)
            THEN Finish(wk, trimmedContent, NoError)
            ELSE Finish(wk, <<>>, Err("failed validation", "none"))
       ELSE Finish(wk, <<>>, Err("does not look like JSON", "none"))

\* what one HTTP attempt can end in, the contents of a 200 response apart
HTTPOutcomes ==
    {"ctx error", "network error", "client timeout", "read error", "ctx read error",
     "status 429/5xx", "status other", "undecodable body", "no choices", "content"}

AfterAttempt(wk, c, outcome, content) ==
    CASE outcome = "ctx error"        -> Finish(wk, <<>>, Err("ctx during HTTP call", c))
      [] outcome = "client timeout"   -> Finish(wk, <<>>, Err("HTTP request failed", "deadline"))
      [] outcome = "network error"    -> Retryable(wk, Err("HTTP request failed", "none"))
      [] outcome = "read error"       -> Retryable(wk, Err("failed to read response body", "none"))
      [] outcome = "ctx read error"   -> Retryable(wk, Err("ctx during HTTP call", c))
      [] outcome = "status 429/5xx"   -> Retryable(wk, Err("API error (429 or 5xx)", "none"))
      [] outcome = "status other"     -> Finish(wk, <<>>, Err("API error (other status)", "none"))
      [] outcome = "undecodable body" -> Finish(wk, <<>>, Err("failed to decode", "none"))
      [] outcome = "no choices"       -> Retryable(wk, Err("no valid choices", "none"))
      [] outcome = "content"          -> ValidateContent(wk, content)

\* httpClient.Do and the handling of its response
HTTPAttempt(w) ==
    /\ worker[w].pc = "http"
    /\ \E outcome \in HTTPOutcomes :
       \E content \in IF outcome = "content" THEN Contents ELSE {<<>>} :
         /\ outcome \in {"ctx error", "ctx read error"} => ctx[worker[w].task] # "live"
         /\ worker' = [worker EXCEPT ![w] =
                         AfterAttempt([@ EXCEPT !.calls = @ + 1], ctx[worker[w].task],
                                      outcome, content)]
    /\ UNCHANGED <<aiTaskQueue, queueClosed, srv, activeAICallsCount, req, ctx, resultChan, parseVars, statVars, sortVars, keyVars, breakVars>>

\* the return of AnalyzeMessagesWithLLM and atomic.AddInt32(&activeAICallsCount, -1)
EndCall(w) ==
    /\ worker[w].pc = "dec"
    /\ activeAICallsCount' = AddInt32(activeAICallsCount, -1)
    /\ worker' = [worker EXCEPT ![w] =
                    [IdleWorker EXCEPT !.pc = "send", !.task = worker[w].task,
                                       !.result = worker[w].result,
                                       !.err = WrapAIError(worker[w].err)]]
    /\ UNCHANGED <<aiTaskQueue, queueClosed, srv, req, ctx, resultChan, parseVars, statVars, sortVars, keyVars, breakVars>>

\* a variant for a result channel without a buffer: with no receiver parked
\* the send is not ready and the default branch is taken
TrySendUnbuffered(ch, tuple) == ch

\* select { case ch <- tuple: default: } on a channel of capacity 1; sends
\* counts the tuples the channel has taken
TrySend(ch, tuple) ==
    IF Len(ch.buf) < 1 THEN [ch EXCEPT !.buf = Append(@, tuple), !.sends = @ + 1] ELSE ch

\* select { case task.resultChan <- tuple: default: }
SendResult(w) ==
    /\ worker[w].pc = "send"
    /\ resultChan' = [resultChan EXCEPT ![worker[w].task] =
                        TrySend(@, [result |-> worker[w].result, err |-> worker[w].err])]
    /\ worker' = [worker EXCEPT ![w].pc = "close"]
    /\ UNCHANGED <<aiTaskQueue, queueClosed, srv, activeAICallsCount, req, ctx, parseVars, statVars, sortVars, keyVars, breakVars>>

\* close(task.resultChan), and back to the range loop
CloseResult(w) ==
    /\ worker[w].pc = "close"
    /\ resultChan' = [resultChan EXCEPT ![worker[w].task].closed = TRUE]
    /\ worker' = [worker EXCEPT ![w] = IdleWorker]
    /\ UNCHANGED <<aiTaskQueue, queueClosed, srv, activeAICallsCount, req, ctx, parseVars, statVars, sortVars, keyVars, breakVars>>

\* the range loop of aiWorker ends on the closed, drained channel
WorkerExit(w) ==
    /\ worker[w].pc = "idle"
    /\ aiTaskQueue = <<>>
    /\ queueClosed
    /\ worker' = [worker EXCEPT ![w].pc = "exited"]
    /\ UNCHANGED <<aiTaskQueue, queueClosed, srv, activeAICallsCount, req, ctx, resultChan, parseVars, statVars, sortVars, keyVars, breakVars>>

\* ---- main after the shutdown signal
\* <-quit, then close(aiTaskQueue)
CloseQueue ==
    /\ ~queueClosed
    /\ queueClosed' = TRUE
    /\ UNCHANGED <<aiTaskQueue, srv, activeAICallsCount, req, ctx, resultChan, worker, parseVars, statVars, sortVars, keyVars, breakVars>>

\* the workers are done or the 10 seconds are over, then srv.Shutdown: the
\* server stops accepting requests
Shutdown ==
    /\ queueClosed
    /\ srv = "serving"
    /\ srv' = "shutdown"
    /\ UNCHANGED <<aiTaskQueue, queueClosed, activeAICallsCount, req, ctx, resultChan, worker, parseVars, statVars, sortVars, keyVars, breakVars>>

Next ==
    \/ \E r \in Requests :
         \/ Receive(r) \/ EnqueueSend(r) \/ EnqueuePanic(r) \/ EnqueueCtxDone(r)
         \/ EnqueueTimeout(r)
         \/ AwaitResult(r) \/ AwaitCtxDone(r)
         \/ Respond(r) \/ CtxCancel(r) \/ CtxDeadline(r)
    \/ \E w \in Workers :
         \/ Dequeue(w) \/ StartCall(w) \/ CheckCtx(w) \/ RetryWaitElapsed(w)
         \/ RetryWaitCtxDone(w) \/ HTTPAttempt(w) \/ EndCall(w) \/ SendResult(w)
         \/ CloseResult(w) \/ WorkerExit(w)
    \/ CloseQueue
    \/ Shutdown

Spec == Init /\ [][Next]_vars

\* ---- the end of the process
\* srv.Shutdown has returned (or failed, which ends in log.Fatal) and main
\* returns: the process ends with whatever the workers and the handlers were
\* doing; main has waited for the workers for at most 10 seconds
ProcessExit ==
    /\ srv = "shutdown"
    /\ srv' = "exited"
    /\ UNCHANGED <<aiTaskQueue, queueClosed, activeAICallsCount, req, ctx, resultChan, worker, parseVars, statVars, sortVars, keyVars, breakVars>>

\* a step of worker w
WorkerStep(w) ==
    \/ Dequeue(w) \/ StartCall(w) \/ CheckCtx(w) \/ RetryWaitElapsed(w)
    \/ RetryWaitCtxDone(w) \/ HTTPAttempt(w) \/ EndCall(w) \/ SendResult(w)
    \/ CloseResult(w) \/ WorkerExit(w)

\* nothing runs once the process has ended
NextLive == (srv # "exited" /\ Next) \/ ProcessExit

\* the pool with its workers scheduled fairly while the process runs; every
\* LLM call returns (HTTPAttempt is a step of the worker)
SpecLive ==
    /\ Init
    /\ [][NextLive]_vars
    /\ \A w \in Workers : WF_vars(srv # "exited" /\ WorkerStep(w))


(***************************************************************************)
(* SpecParse: preprocessMessages line by line on every upload of at most   *)
(* MaxLines lines over ParseLines, then the result AnalyzeChat composes    *)
(* from it.  The AI branch is reduced to what it hands to the composition. *)
(***************************************************************************)
EU24DT    == DT(31, 2, 1, 2, 24, 2, 23, 0, -1, "")
AmbigDT   == DT(2, 1, 3, 1, 24, 2, 10, 0, -1, "")
USPMDT    == DT(1, 1, 31, 2, 24, 2, 11, 0, -1, "PM")
AmbigAMDT == DT(2, 1, 3, 1, 24, 2, 10, 5, -1, "AM")
NoDateDT  == DT(31, 2, 31, 2, 24, 2, 10, 0, -1, "")

ParseBodies == {<<"word">>, <<"stop", "short">>, <<"syspat", "word">>, <<"media">>}

ParseLines ==
    {BlankLine, TextLine, LongLine}
    \cup {MsgLine(dt, 1, <<"word">>) : dt \in {EU24DT, USPMDT}}
    \cup {MsgLine(dt, 2, <<"word">>) : dt \in {AmbigAMDT, NoDateDT}}
    \cup {MsgLine(AmbigDT, 2, body) : body \in ParseBodies}

RECURSIVE SeqsUpTo(_, _)
SeqsUpTo(S, n) ==
    IF n = 0 THEN {<<>>}
    ELSE LET shorter == SeqsUpTo(S, n - 1)
         IN shorter \cup {Append(q, x) : q \in {t \in shorter : Len(t) = n - 1}, x \in S}

\* what the AI branch can hand to the composition: nothing, a JSON text, a
\* failure, or the context error of a cancelled wait
AIOutcomes(userCount) ==
    IF shouldRunAI(userCount)
    THEN {[result |-> <<>>, err |-> NoError], [result |-> <<"{", "}">>, err |-> NoError],
          [result |-> <<>>, err |-> Err("AI analysis failed", "none")],
          [result |-> <<>>, err |-> Err("ctx", "canceled")]}
    ELSE {[result |-> <<>>, err |-> NoError]}

InitParse ==
    /\ aiTaskQueue = <<>>
    /\ queueClosed = FALSE
    /\ srv = "serving"
    /\ activeAICallsCount = 0
    /\ req = [r \in Requests |-> IdleReq]
    /\ ctx = [r \in Requests |-> "live"]
    /\ resultChan = [r \in Requests |-> EmptyChan]
    /\ worker = [w \in Workers |-> IdleWorker]
    /\ upload \in SeqsUpTo(ParseLines, MaxLines)
    /\ pp = [pc |-> "sniff"]
    /\ st = [pc |-> "off"]
    /\ SortOff /\ KeysOff /\ BreakOff

\* sniffTimestampLayouts and the fallback to the global list
PPSniff ==
    /\ pp.pc = "sniff"
    /\ pp' = [pc |-> "scan", layouts |-> ChooseLayouts(upload), pos |-> 0,
              rawMessageCount |-> 0, messagesData |-> <<>>]
    /\ UNCHANGED <<poolVars, upload, st, sortVars, keyVars, breakVars>>

\* for mainScanner.Scan() { ... }: one line
PPScan ==
    /\ pp.pc = "scan"
    /\ pp.pos < Len(Scanned(upload))
    /\ pp' = ScanLine(pp, upload[pp.pos + 1])
    /\ UNCHANGED <<poolVars, upload, st, sortVars, keyVars, breakVars>>

\* the end of the loop and the check of mainScanner.Err()
PPReturn ==
    /\ pp.pc = "scan"
    /\ pp.pos = Len(Scanned(upload))
    /\ pp' = [pc |-> "parsed", rawMessageCount |-> pp.rawMessageCount,
              messagesData |-> pp.messagesData, err |-> ScannerErr(upload)]
    /\ UNCHANGED <<poolVars, upload, st, sortVars, keyVars, breakVars>>

\* AnalyzeChat from the return of preprocessMessages to its own return
PPAnalyze ==
    /\ pp.pc = "parsed"
    /\ LET userCount == Cardinality(UserSet(pp.messagesData))
           dynamicBreak == calculateDynamicConvoBreak(pp.messagesData, 120, 30, 300)
       IN IF pp.err
          THEN pp' = [pp EXCEPT !.pc = "failed"]
          ELSE IF pp.rawMessageCount = 0
          THEN pp' = [pc |-> "analyzed", rawMessageCount |-> pp.rawMessageCount,
                      messagesData |-> pp.messagesData, err |-> FALSE,
                      userCount |-> userCount, result |-> NoMessagesResult]
          ELSE \E statsOut \in calculateChatStatistics(pp.messagesData, dynamicBreak) :
               \E ai \in AIOutcomes(userCount) :
                 pp' = [pc |-> "analyzed", rawMessageCount |-> pp.rawMessageCount,
                        messagesData |-> pp.messagesData, err |-> FALSE,
                        userCount |-> userCount,
                        result |-> ComposeResult(pp.rawMessageCount, statsOut,
                                                 ai.result, ai.err)]
    /\ UNCHANGED <<poolVars, upload, st, sortVars, keyVars, breakVars>>

NextParse == PPSniff \/ PPScan \/ PPReturn \/ PPAnalyze

SpecParse == InitParse /\ [][NextParse]_vars


(***************************************************************************)
(* SpecStats: calculateChatStatistics record by record on every list of at *)
(* most MaxMsgs accepted records over StatSenders and StatTimes, in file   *)
(* order.  The instants straddle a midnight and a month boundary, leave a  *)
(* month empty, and sit 5 and 120 minutes apart.                           *)
(***************************************************************************)
TS(y, mo, d, h, mi) == [y |-> y, mo |-> mo, d |-> d, h |-> h, mi |-> mi, s |-> 0]

StatTimes ==
    {TS(2024, 1, 31, 23, 0), TS(2024, 2, 1, 1, 0), TS(2024, 3, 2, 10, 0),
     TS(2024, 3, 2, 10, 5), TS(2024, 3, 2, 12, 5)}

StatRecords ==
    {ParsedMessage(ts, sender, <<"word">>, [dayFirst |-> TRUE]) :
        ts \in StatTimes, sender \in Senders}

InitStats ==
    /\ aiTaskQueue = <<>>
    /\ queueClosed = FALSE
    /\ srv = "serving"
    /\ activeAICallsCount = 0
    /\ req = [r \in Requests |-> IdleReq]
    /\ ctx = [r \in Requests |-> "live"]
    /\ resultChan = [r \in Requests |-> EmptyChan]
    /\ worker = [w \in Workers |-> IdleWorker]
    /\ upload = <<>>
    /\ pp = [pc |-> "off"]
    /\ SortOff /\ KeysOff /\ BreakOff
    /\ \E messagesData \in SeqsUpTo(StatRecords, MaxMsgs) :
         st = [pc |-> "loop", messagesData |-> messagesData,
               convoBreakMinutes |-> calculateDynamicConvoBreak(messagesData, 120, 30, 300),
               s |-> StatsInit]

\* the check for an empty list at the head of calculateChatStatistics
StatsEmpty ==
    /\ st.pc = "loop"
    /\ st.messagesData = <<>>
    /\ st' = [pc |-> "failed", messagesData |-> st.messagesData]
    /\ UNCHANGED <<poolVars, upload, pp, sortVars, keyVars, breakVars>>

\* for i, msg := range messagesData { ... }: one record
StatsStep ==
    /\ st.pc = "loop"
    /\ st.s.i < Len(st.messagesData)
    /\ st' = [st EXCEPT !.s = StatsLoopBody(st.s, st.messagesData, st.convoBreakMinutes,
                                            st.s.i + 1)]
    /\ UNCHANGED <<poolVars, upload, pp, sortVars, keyVars, breakVars>>

\* everything after the loop; the two range loops over maps end on any of
\* the maximal keys
StatsFinish ==
    /\ st.pc = "loop"
    /\ st.messagesData # <<>>
    /\ st.s.i = Len(st.messagesData)
    /\ \E champ \in ArgMax(st.s.userFirstTexts), peak \in ArgMax(st.s.hourlyMessageCount) :
         st' = [pc |-> "done", messagesData |-> st.messagesData,
                convoBreakMinutes |-> st.convoBreakMinutes, s |-> st.s,
                stats |-> StatsResult(st.s, st.messagesData, champ, peak)]
    /\ UNCHANGED <<poolVars, upload, pp, sortVars, keyVars, breakVars>>

NextStats == StatsEmpty \/ StatsStep \/ StatsFinish

SpecStats == InitStats /\ [][NextStats]_vars


(***************************************************************************)
(* SpecRace: one request whose task has been enqueued.  AnalyzeChat hands  *)
(* the same slice to the statistics goroutine and to the task, so          *)
(* calculateChatStatistics and the sort.SliceStable of groupMessagesByTopic*)
(* work on one backing array, st.messagesData, without synchronisation.    *)
(* The steps of the two goroutines interleave freely; a step of the sort   *)
(* is one comparison with the swap it leads to.  st.fileOrder keeps the    *)
(* records as preprocessMessages returned them.                            *)
(***************************************************************************)
RaceTimes == {TS(2024, 3, 2, 10, 0), TS(2024, 3, 2, 10, 5), TS(2024, 3, 2, 12, 5)}

RaceRecords ==
    {ParsedMessage(ts, sender, <<"word">>, [dayFirst |-> TRUE]) :
        ts \in RaceTimes, sender \in 1..2}

\* t.Before(u)
Before(t, u) == SubSeconds(t, u) < 0

\* data.Swap(j, j-1)
Swap(data, j) == [data EXCEPT ![j] = data[j - 1], ![j - 1] = data[j]]

InitRace ==
    /\ aiTaskQueue = <<>>
    /\ queueClosed = FALSE
    /\ srv = "serving"
    /\ activeAICallsCount = 0
    /\ req = [r \in Requests |-> IdleReq]
    /\ ctx = [r \in Requests |-> "live"]
    /\ resultChan = [r \in Requests |-> EmptyChan]
    /\ worker = [w \in Workers |-> IdleWorker]
    /\ upload = <<>>
    /\ pp = [pc |-> "off"]
    /\ KeysOff /\ BreakOff
    /\ \E messagesData \in SeqsUpTo(RaceRecords, MaxMsgs) :
         /\ shouldRunAI(Cardinality(UserSet(messagesData)))
         /\ st = [pc |-> "go", messagesData |-> messagesData, fileOrder |-> messagesData,
                  convoBreakMinutes |-> calculateDynamicConvoBreak(messagesData, 120, 30, 300)]
    /\ sorter = [pc |-> "queued"]

\* the statistics goroutine enters calculateChatStatistics: it reads the
\* timestamps of the first and the last record before the loop
RaceStatsEnter ==
    /\ st.pc = "go"
    /\ st' = [pc |-> "loop", messagesData |-> st.messagesData, fileOrder |-> st.fileOrder,
              convoBreakMinutes |-> st.convoBreakMinutes,
              firstMessageTimestamp |-> st.messagesData[1].Timestamp,
              latestMessageTimestamp |-> st.messagesData[Len(st.messagesData)].Timestamp,
              s |-> StatsInit]
    /\ UNCHANGED <<poolVars, upload, pp, sortVars, keyVars, breakVars>>

\* everything after the loop, with the two timestamps read at the entry
RaceStatsFinish ==
    /\ st.pc = "loop"
    /\ st.s.i = Len(st.messagesData)
    /\ \E champ \in ArgMax(st.s.userFirstTexts), peak \in ArgMax(st.s.hourlyMessageCount) :
         st' = [pc |-> "done", messagesData |-> st.messagesData, fileOrder |-> st.fileOrder,
                convoBreakMinutes |-> st.convoBreakMinutes, s |-> st.s,
                stats |-> StatsResult(st.s,
                             [st.messagesData EXCEPT
                                 ![1].Timestamp = st.firstMessageTimestamp,
                                 ![Len(st.messagesData)].Timestamp = st.latestMessageTimestamp],
                             champ, peak)]
    /\ UNCHANGED <<poolVars, upload, pp, sortVars, keyVars, breakVars>>

\* a worker has dequeued the task: AnalyzeMessagesWithLLM (a key is
\* configured) calls groupMessagesByTopic, which calls sort.SliceStable on
\* the slice of the task; up to 20 elements that is an insertion sort
SortBegin ==
    /\ sorter.pc = "queued"
    /\ sorter' = [pc |-> "sort", i |-> 2, j |-> 2]
    /\ UNCHANGED <<poolVars, upload, pp, st, keyVars, breakVars>>

\* for i := a + 1; i < b; i++ { for j := i; j > a && less(j, j-1); j-- { swap(j, j-1) } }
SortStep ==
    /\ sorter.pc = "sort"
    /\ LET data == st.messagesData
           i == sorter.i
           j == sorter.j
       IN IF i > Len(data)
          THEN sorter' = [pc |-> "sorted"] /\ st' = st
          ELSE IF j > 1 /\ Before(data[j].Timestamp, data[j - 1].Timestamp)
          THEN /\ st' = [st EXCEPT !.messagesData = Swap(data, j)]
               /\ sorter' = [sorter EXCEPT !.j = j - 1]
          ELSE /\ sorter' = [sorter EXCEPT !.i = i + 1, !.j = i + 1]
               /\ st' = st
    /\ UNCHANGED <<poolVars, upload, pp, keyVars, breakVars>>

RaceStatsStep ==
    /\ st.pc = "loop"
    /\ StatsStep

NextRace == RaceStatsEnter \/ RaceStatsStep \/ RaceStatsFinish \/ SortBegin \/ SortStep

SpecRace == InitRace /\ [][NextRace]_vars


(***************************************************************************)
(* SpecBreak: calculatePercentile on every sorted sample of at most        *)
(* MaxSample values with every percentage of Percents, and                 *)
(* calculateDynamicConvoBreak(msgs, 120, 30, 300) on lists of records      *)
(* built from their gaps: up to MaxGaps gaps, a run of one length followed *)
(* by a run of another, the senders alternating or changing every second   *)
(* record.  The gap lengths are 3 s and 12 h (not eligible), 1, 1.5, 100   *)
(* and 300 minutes.                                                        *)
(***************************************************************************)
SampleValues == {1, 2, 4}
Percents == {0, 25, 50, 85, 100}

SortedSamples ==
    {q \in SeqsUpTo(SampleValues, MaxSample) : \A i \in 1..(Len(q) - 1) : q[i] <= q[i + 1]}

BreakGaps == {3, 60, 90, 6000, 18000, 43200}

GapRuns ==
    {[i \in 1..n |-> IF i <= k THEN a ELSE b] :
        n \in (minResponseTimes - 1)..MaxGaps, k \in 0..MaxGaps, a \in BreakGaps, b \in BreakGaps}

\* the instant n seconds after 2024-03-01 00:00:00
FromSeconds(n) ==
    [y |-> 2024, mo |-> 3, d |-> 1 + (n \div 86400), h |-> (n % 86400) \div 3600,
     mi |-> (n % 3600) \div 60, s |-> n % 60]

RECURSIVE Instants(_, _)
Instants(gaps, from) ==
    IF gaps = <<>> THEN <<from>> ELSE <<from>> \o Instants(Tail(gaps), from + Head(gaps))

\* the records with the given gaps between them
RecordsWithGaps(gaps, pattern) ==
    LET at == Instants(gaps, 0)
    IN [i \in DOMAIN at |->
          ParsedMessage(FromSeconds(at[i]),
                        IF pattern = "alternate" THEN 1 + (i % 2) ELSE 1 + ((i \div 2) % 2),
                        <<"word">>, [dayFirst |-> TRUE])]

InitBreak ==
    /\ aiTaskQueue = <<>>
    /\ queueClosed = FALSE
    /\ srv = "serving"
    /\ activeAICallsCount = 0
    /\ req = [r \in Requests |-> IdleReq]
    /\ ctx = [r \in Requests |-> "live"]
    /\ resultChan = [r \in Requests |-> EmptyChan]
    /\ worker = [w \in Workers |-> IdleWorker]
    /\ upload = <<>>
    /\ pp = [pc |-> "off"]
    /\ st = [pc |-> "off"]
    /\ SortOff /\ KeysOff
    /\ \/ \E sortedData \in SortedSamples, p \in Percents :
            brk = [pc |-> "percentile", sortedData |-> sortedData, p |-> p]
       \/ \E gaps \in GapRuns, pattern \in {"alternate", "pairs"} :
            brk = [pc |-> "break", messagesData |-> RecordsWithGaps(gaps, pattern)]

BreakPercentile ==
    /\ brk.pc = "percentile"
    /\ brk' = [pc |-> "percentile done", sortedData |-> brk.sortedData, p |-> brk.p,
               result |-> calculatePercentile(brk.sortedData, brk.p)]
    /\ UNCHANGED <<poolVars, upload, pp, st, sortVars, keyVars>>

BreakDynamic ==
    /\ brk.pc = "break"
    /\ brk' = [pc |-> "break done", messagesData |-> brk.messagesData,
               result |-> calculateDynamicConvoBreak(brk.messagesData, 120, 30, 300)]
    /\ UNCHANGED <<poolVars, upload, pp, st, sortVars, keyVars>>

NextBreak == BreakPercentile \/ BreakDynamic

SpecBreak == InitBreak /\ [][NextBreak]_vars


(***************************************************************************)
(* SpecKeys: the key-rotating LLM client (whatsbackend/main.go).  The      *)
(* package variables primaryKeyIndices, fallbackKey and                    *)
(* currentPrimaryKeyIndex are shared by the concurrent calls of            *)
(* AnalyzeMessagesWithLLM, one per request; getNextAPIKey runs under       *)
(* keyRotationLock and is one step.  A call of invokeGroq with one key is  *)
(* one step that succeeds, fails, or ends on the context of the call.      *)
(* client[c].tried lists the keys call c has handed to invokeGroq, the     *)
(* fallback key as FallbackKeyName.                                        *)
(***************************************************************************)
Callers == 1..NumReq
FallbackKeyName == 9

IdleClient == [pc |-> "idle", i |-> 0, key |-> 0, tried |-> <<>>, lastErr |-> FALSE,
               ctxDone |-> FALSE, ok |-> FALSE]

\* init(): the keys found in the environment, the cursor at 0
InitKeys ==
    /\ aiTaskQueue = <<>>
    /\ queueClosed = FALSE
    /\ srv = "serving"
    /\ activeAICallsCount = 0
    /\ req = [r \in Requests |-> IdleReq]
    /\ ctx = [r \in Requests |-> "live"]
    /\ resultChan = [r \in Requests |-> EmptyChan]
    /\ worker = [w \in Workers |-> IdleWorker]
    /\ upload = <<>>
    /\ pp = [pc |-> "off"]
    /\ st = [pc |-> "off"]
    /\ SortOff /\ BreakOff
    /\ \E n \in 0..MaxPrimaryKeys, fallbackKey \in {"", "key"} :
         keys = [primaryKeyIndices |-> [j \in 1..n |-> j], fallbackKey |-> fallbackKey,
                 currentPrimaryKeyIndex |-> 0]
    /\ client = [c \in Callers |-> IdleClient]

\* getNextAPIKey: the key under the cursor, and the cursor moved on
getNextAPIKey(k) ==
    IF Len(k.primaryKeyIndices) = 0 THEN [keyIndex |-> 0, keys |-> k]
    ELSE [keyIndex |-> k.primaryKeyIndices[k.currentPrimaryKeyIndex + 1],
          keys |-> [k EXCEPT !.currentPrimaryKeyIndex = (@ + 1) % Len(k.primaryKeyIndices)]]

\* the AI goroutine of a request calls AnalyzeMessagesWithLLM: without any
\* key it returns at once
KeyCall(c) ==
    /\ client[c].pc = "idle"
    /\ client' = [client EXCEPT ![c] =
                    IF Len(keys.primaryKeyIndices) = 0 /\ keys.fallbackKey = ""
                    THEN [IdleClient EXCEPT !.pc = "returned", !.ok = TRUE]
                    ELSE [IdleClient EXCEPT !.pc = "primary"]]
    /\ UNCHANGED <<poolVars, upload, pp, st, sortVars, keys, breakVars>>

\* the context of the call ends
KeyCtxDone(c) ==
    /\ client[c].pc \notin {"idle", "returned"}
    /\ ~client[c].ctxDone
    /\ client' = [client EXCEPT ![c].ctxDone = TRUE]
    /\ UNCHANGED <<poolVars, upload, pp, st, sortVars, keys, breakVars>>

\* for i := 0; i < numPrimaryKeys; i++ { select on ctx.Done(); getNextAPIKey() }
KeyNextPrimary(c) ==
    /\ client[c].pc = "primary"
    /\ LET cl == client[c]
           next == getNextAPIKey(keys)
       IN IF cl.i >= Len(keys.primaryKeyIndices)
          THEN client' = [client EXCEPT ![c].pc = "fallback"] /\ keys' = keys
          ELSE IF cl.ctxDone
          THEN client' = [client EXCEPT ![c].pc = "returned"] /\ keys' = keys
          ELSE /\ keys' = next.keys
               /\ client' = [client EXCEPT ![c].pc = "invoke", ![c].key = next.keyIndex,
                                           ![c].tried = Append(@, next.keyIndex)]
    /\ UNCHANGED <<poolVars, upload, pp, st, sortVars, breakVars>>

\* invokeGroq with a primary key: success returns, a context error returns,
\* any other error goes on to the next iteration
KeyInvokePrimary(c) ==
    /\ client[c].pc = "invoke"
    /\ \E outcome \in {"ok", "failed", "ctx error"} :
         /\ outcome = "ctx error" => client[c].ctxDone
         /\ client' = [client EXCEPT ![c] =
                         CASE outcome = "ok" -> [@ EXCEPT !.pc = "returned", !.ok = TRUE]
                           [] outcome = "ctx error" -> [@ EXCEPT !.pc = "returned", !.lastErr = TRUE]
                           [] outcome = "failed" ->
                                 [@ EXCEPT !.pc = "primary", !.i = @ + 1, !.lastErr = TRUE]]
    /\ UNCHANGED <<poolVars, upload, pp, st, sortVars, keys, breakVars>>

\* if fallbackKey != "" { select on ctx.Done(); invokeGroq(ctx, fallbackKey, ...) }
KeyFallback(c) ==
    /\ client[c].pc = "fallback"
    /\ client' = [client EXCEPT ![c] =
                    IF keys.fallbackKey = "" \/ client[c].ctxDone
                    THEN [@ EXCEPT !.pc = "returned"]
                    ELSE [@ EXCEPT !.pc = "invoke fallback", !.key = FallbackKeyName,
                                   !.tried = Append(@, FallbackKeyName)]]
    /\ UNCHANGED <<poolVars, upload, pp, st, sortVars, keys, breakVars>>

\* invokeGroq with the fallback key
KeyInvokeFallback(c) ==
    /\ client[c].pc = "invoke fallback"
    /\ \E outcome \in {"ok", "failed", "ctx error"} :
         /\ outcome = "ctx error" => client[c].ctxDone
         /\ client' = [client EXCEPT ![c] =
                         IF outcome = "ok" THEN [@ EXCEPT !.pc = "returned", !.ok = TRUE]
                         ELSE [@ EXCEPT !.pc = "returned", !.lastErr = TRUE]]
    /\ UNCHANGED <<poolVars, upload, pp, st, sortVars, keys, breakVars>>

\* the call is over; the next request makes the next call
KeyReturn(c) ==
    /\ client[c].pc = "returned"
    /\ client' = [client EXCEPT ![c] = IdleClient]
    /\ UNCHANGED <<poolVars, upload, pp, st, sortVars, keys, breakVars>>

NextKeys ==
    \E c \in Callers :
        \/ KeyCall(c) \/ KeyCtxDone(c) \/ KeyNextPrimary(c) \/ KeyInvokePrimary(c)
        \/ KeyFallback(c) \/ KeyInvokeFallback(c) \/ KeyReturn(c)

SpecKeys == InitKeys /\ [][NextKeys]_vars


(***************************************************************************)
(* Properties of Spec.                                                     *)
(***************************************************************************)
InQueue(r) == \E i \in DOMAIN aiTaskQueue : aiTaskQueue[i] = r
HeldByWorker(r) == \E w \in Workers : worker[w].task = r
Eligible(userCount) == userCount > 1 /\ userCount <= maxUsersForPeopleBlock

QueueTimeoutMeansNeverEnqueued ==
    \A r \in Requests :
        req[r].retErr = "queueTimeout" =>
            /\ req[r].hasChan
            /\ ~req[r].enqueued
            /\ ~InQueue(r)
            /\ ~HeldByWorker(r)
            /\ resultChan[r] = EmptyChan
            /\ req[r].result.nil
            /\ req[r].pc = "done" => req[r].status = 429

LeavingFullQueueIsTimeout ==
    \A r \in Requests :
        ( /\ req[r].pc = "enqueue"
          /\ req'[r].pc # "enqueue"
          /\ ctx[r] = "live"
          /\ ~queueClosed
          /\ aiTaskQueue' = aiTaskQueue )
        => req'[r].retErr = "queueTimeout"

\* C1: a request that leaves the enqueue select of the open queue without
\* having sent its task and without its context being done returns
\* ErrAIQueueTimeout; a request
\* that returned ErrAIQueueTimeout is answered 429, its task was never put on
\* the queue, no worker ever holds it and nothing is sent on its result channel.
C1_QueueTimeout == []QueueTimeoutMeansNeverEnqueued /\ [][LeavingFullQueueIsTimeout]_vars

\* a request answered 429 while the task of another request still fills the queue
C1_Witness ==
    \E r \in Requests :
        /\ req[r].pc = "done"
        /\ req[r].status = 429
        /\ Len(aiTaskQueue) = MaxConcurrentAICalls
        /\ ~InQueue(r)

OfferedOnlyWhenEligible ==
    \A r \in Requests :
        /\ req[r].pc \notin {"idle", "done"} => (req[r].hasChan <=> Eligible(req[r].userCount))
        /\ (req[r].enqueued \/ InQueue(r) \/ HeldByWorker(r) \/ req[r].retErr = "queueTimeout")
              => req[r].hasChan

\* C2: a task is created and offered exactly when 1 < senders <=
\* maxUsersForPeopleBlock; a request with any other sender count is never
\* enqueued, never held by a worker, never gets a queue timeout and returns
\* ai_analysis = null; when it has at least one sender its statistics are
\* present, with total_messages the raw count.
C2_AISkipped ==
    /\ OfferedOnlyWhenEligible
    /\ \A r \in Requests :
         (req[r].pc = "returned" /\ ~req[r].hasChan /\ req[r].retErr = "none") =>
            /\ req[r].result.v.AIAnalysis.nil
            /\ req[r].userCount >= 1 =>
                  /\ ~req[r].result.v.Stats.nil
                  /\ req[r].result.v.Stats.v.TotalMessages = req[r].rawMessageCount
                  /\ req[r].result.v.Error = <<>>

\* a request with more senders than maxUsersForPeopleBlock back with statistics
C2_Witness ==
    \E r \in Requests :
        /\ req[r].pc = "returned"
        /\ req[r].userCount > maxUsersForPeopleBlock
        /\ ~req[r].hasChan
        /\ ~req[r].result.v.Stats.nil
        /\ req[r].result.v.AIAnalysis.nil

\* C2 as stated: the statistics are present for every request whose AI branch
\* is skipped, those without any sender included
C2_AsStated ==
    /\ OfferedOnlyWhenEligible
    /\ \A r \in Requests :
         (req[r].pc = "returned" /\ ~req[r].hasChan /\ req[r].retErr = "none") =>
            /\ req[r].result.v.AIAnalysis.nil
            /\ ~req[r].result.v.Stats.nil

\* C3: when the request context ended the AI branch, at the enqueue select,
\* at the wait for the result or inside invokeGroq, AnalyzeChat returns a
\* result with ai_analysis = null and no "AI analysis failed" text.
C3_CtxEndIsSilent ==
    \A r \in Requests :
        (req[r].pc = "returned" /\ req[r].aiErr.kind = "ctx") =>
            /\ req[r].retErr = "none"
            /\ ~req[r].result.nil
            /\ req[r].result.v.AIAnalysis.nil
            /\ \A i \in DOMAIN req[r].result.v.Error :
                  req[r].result.v.Error[i] # "AI analysis failed"

\* C4: a request for which AnalyzeChat returned a result is answered 504, not
\* 200, when its context has ended with the deadline by the time the handler
\* looks at it; 504 is only ever the answer to a request whose deadline passed.
C4_Deadline504 ==
    \A r \in Requests :
        req[r].pc = "done" =>
            /\ (req[r].retErr = "none" /\ ctx[r] = "deadline") => req[r].status = 504
            /\ req[r].status = 504 => ctx[r] = "deadline"
            /\ req[r].status = 200 => ctx[r] # "deadline"

\* a request whose task was enqueued and whose deadline passed, answered 504
C4_Witness ==
    \E r \in Requests :
        /\ req[r].pc = "done"
        /\ req[r].enqueued
        /\ ctx[r] = "deadline"
        /\ req[r].status = 504

\* C4 as stated: every return other than the queue timeout is answered 504
\* once the deadline has passed
C4_AsStated ==
    \A r \in Requests :
        req[r].pc = "done" =>
            /\ (req[r].retErr # "queueTimeout" /\ ctx[r] = "deadline") => req[r].status = 504
            /\ req[r].status = 504 => ctx[r] = "deadline"


(***************************************************************************)
(* Properties of SpecParse.                                                *)
(***************************************************************************)
NonBlank(lines) == Cardinality({i \in DOMAIN lines : lines[i].k # "blank"})

SystemOnly(lines) ==
    \A i \in DOMAIN lines :
        lines[i].k = "msg" /\ (IsSystemMessage(lines[i].body) \/ IsMedia(lines[i].body))

\* C5: for an empty upload and for an upload of system and media lines only,
\* AnalyzeChat returns a result with total_messages = 0 and a non-empty error.
C5_NoAcceptedRecords ==
    (pp.pc = "analyzed" /\ SystemOnly(upload)) =>
        /\ pp.messagesData = <<>>
        /\ pp.result.TotalMessages = 0
        /\ pp.result.Error # <<>>

\* C6: the raw count is the number of non-blank lines the scanner has
\* delivered, at every step of the loop and at the return; the accepted
\* records never outnumber it; AnalysisResult.total_messages and, when
\* statistics are present, stats.total_messages are the number of non-blank
\* lines of the upload.
C6_RawCount ==
    /\ pp.pc = "scan" =>
          /\ pp.rawMessageCount = NonBlank(SubSeq(upload, 1, pp.pos))
          /\ Len(pp.messagesData) <= pp.rawMessageCount
    /\ pp.pc = "parsed" =>
          /\ pp.rawMessageCount = NonBlank(Scanned(upload))
          /\ ~pp.err => pp.rawMessageCount = NonBlank(upload)
          /\ Len(pp.messagesData) <= pp.rawMessageCount
    /\ pp.pc = "analyzed" =>
          /\ pp.result.TotalMessages = NonBlank(upload)
          /\ ~pp.result.Stats.nil => pp.result.Stats.v.TotalMessages = NonBlank(upload)

\* three non-blank lines, one accepted, one dropped by the system filter and
\* one that is no header: statistics over one record report three messages
C6_Witness ==
    /\ pp.pc = "analyzed"
    /\ Len(upload) = 3
    /\ \E i \in DOMAIN upload : upload[i].k = "msg" /\ IsSystemMessage(upload[i].body)
    /\ \E i \in DOMAIN upload : upload[i].k = "text"
    /\ Len(pp.messagesData) = 1
    /\ ~pp.result.Stats.nil
    /\ pp.result.Stats.v.TotalMessages = 3


(***************************************************************************)
(* Properties of SpecStats.                                                *)
(***************************************************************************)
\* C7: first_text_champion.count <= days_active.
C7_ChampionWithinDaysActive ==
    st.pc = "done" => st.stats.FirstTextChampion.Count <= st.stats.DaysActive

PctSum == MapTotal(st.stats.MostActiveUsersPct)

\* C8: every value of most_active_users_pct is count * 100 / total rounded to
\* two decimals, and the values sum to 100 within 0.01 per sender (all in
\* hundredths of a percent).
C8_ActivityPctSum ==
    st.pc = "done" =>
        /\ DOMAIN st.stats.MostActiveUsersPct = UserSet(st.messagesData)
        /\ \A u \in UserSet(st.messagesData) :
              st.stats.MostActiveUsersPct[u] =
                  RoundDiv(Cardinality({i \in DOMAIN st.messagesData :
                                           st.messagesData[i].Sender = u}) * 10000,
                           Len(st.messagesData))
        /\ PctSum - 10000 <= Cardinality(UserSet(st.messagesData))
        /\ 10000 - PctSum <= Cardinality(UserSet(st.messagesData))

\* three senders with a third each: the sum is 99.99
C8_Witness ==
    /\ st.pc = "done"
    /\ Cardinality(UserSet(st.messagesData)) = 3
    /\ PctSum = 9999

\* C9: every sender is a key of user_message_count, most_active_users_pct,
\* conversation_starters_pct and most_ignored_users_pct, and has a monthly
\* series.
C9_EverySenderInEveryMap ==
    st.pc = "done" =>
        \A u \in UserSet(st.messagesData) :
            /\ u \in DOMAIN st.stats.UserMessageCount
            /\ u \in DOMAIN st.stats.MostActiveUsersPct
            /\ u \in DOMAIN st.stats.ConversationStartersPct
            /\ u \in DOMAIN st.stats.MostIgnoredUsersPct
            /\ u \in DOMAIN st.stats.UserMonthlyActivity

ObservedMonths == {MonthIndex(FormatMonth(st.messagesData[i].Timestamp)) : i \in DOMAIN st.messagesData}
EarliestMonth == CHOOSE m \in ObservedMonths : \A n \in ObservedMonths : m <= n
LatestMonth == CHOOSE m \in ObservedMonths : \A n \in ObservedMonths : n <= m

\* C10: the monthly series of every sender has one point per calendar month
\* from the earliest to the latest observed month, in ascending order.
C10_MonthlySeriesZeroFilled ==
    st.pc = "done" =>
        \A u \in DOMAIN st.stats.UserMonthlyActivity :
            LET series == st.stats.UserMonthlyActivity[u]
            IN /\ Len(series) = LatestMonth - EarliestMonth + 1
               /\ \A j \in DOMAIN series : MonthIndex(series[j].X) = EarliestMonth + j - 1

\* the rows of the emitted matrix after the header row
MatrixRows == Tail(st.stats.UserInteractionMatrix.v)

\* C11: the interaction matrix is emitted exactly when there are at least two
\* senders; when emitted, its header row and its header column list the
\* senders in ascending order after a leading nil, it is square over the
\* senders, every cell is a non-negative integer and every diagonal cell is 0.
C11_InteractionMatrixShape ==
    st.pc = "done" =>
        LET users == UserSet(st.messagesData)
            n == Cardinality(users)
            m == st.stats.UserInteractionMatrix
        IN /\ m.nil <=> n < 2
           /\ ~m.nil =>
                /\ Len(m.v) = n + 1
                /\ \A i \in DOMAIN m.v : Len(m.v[i]) = n + 1
                /\ m.v[1][1] = Nil
                /\ {m.v[1][j + 1] : j \in 1..n} = users
                /\ \A j \in 1..(n - 1) : m.v[1][j + 1] < m.v[1][j + 2]
                /\ \A i \in 1..n : m.v[i + 1][1] = m.v[1][i + 1]
                /\ \A i \in 1..n, j \in 1..n :
                      /\ m.v[i + 1][j + 1] \in Nat
                      /\ i = j => m.v[i + 1][j + 1] = 0

\* an emitted matrix over three senders with a counted response
C11_Witness ==
    /\ st.pc = "done"
    /\ ~st.stats.UserInteractionMatrix.nil
    /\ Cardinality(UserSet(st.messagesData)) = 3
    /\ \E i \in DOMAIN MatrixRows, j \in 2..4 : MatrixRows[i][j] > 0

\* the hours with a record, and the hours whose count is maximal
HourCount(h) == Cardinality({i \in DOMAIN st.messagesData : st.messagesData[i].Timestamp.h = h})
MaximalHours == {h \in 0..23 : HourCount(h) > 0 /\ \A g \in 0..23 : HourCount(g) <= HourCount(h)}

\* C12: peak_hour is an hour in 0..23 whose message count is maximal, and
\* among the hours sharing the maximal count it is the lowest one.
C12_PeakHourLowestOnTie ==
    st.pc = "done" =>
        /\ st.stats.PeakHour \in MaximalHours
        /\ \A h \in MaximalHours : st.stats.PeakHour <= h

(***************************************************************************)
(* More properties of SpecParse.                                           *)
(***************************************************************************)
\* the layouts left by the elimination over the sampled lines of the upload
Survivors ==
    LET IsSample(l) == l.k = "msg"
    IN Eliminate(timestampParseLayouts,
                 SelectSeq(SubSeq(upload, 1, Min(maxLinesToSniff, Len(upload))), IsSample))

SeveralSurvivorsOneDayFirst ==
    /\ ~ScannerErr(upload)
    /\ \E j \in DOMAIN upload : upload[j].k = "msg"
    /\ Len(Survivors) > 1
    /\ \E i \in DOMAIN Survivors : Survivors[i].dayFirst

BothOrderings(dt) == dt.p1 \in 1..12 /\ dt.p2 \in 1..12 /\ dt.p1 # dt.p2

\* C14: when the elimination over the sampled lines leaves more than one
\* layout and at least one of them is day-first, the main pass works with
\* day-first layouts only, and every record it accepts was parsed day-first:
\* its day is the first number of the date and its month the second.
C14_DayFirstWins ==
    SeveralSurvivorsOneDayFirst =>
        /\ pp.pc = "scan" => \A i \in DOMAIN pp.layouts : pp.layouts[i].dayFirst
        /\ pp.pc \in {"scan", "parsed", "analyzed"} =>
              \A i \in DOMAIN pp.messagesData :
                  /\ pp.messagesData[i].dayFirst
                  /\ \E j \in DOMAIN upload :
                        /\ upload[j].k = "msg"
                        /\ pp.messagesData[i].Timestamp.d = upload[j].dt.p1
                        /\ pp.messagesData[i].Timestamp.mo = upload[j].dt.p2

\* an upload of AM/PM dates that read both ways, left with a month-first and
\* a day-first layout, and accepted as the 2nd of March
C14_Witness ==
    /\ pp.pc = "parsed"
    /\ SeveralSurvivorsOneDayFirst
    /\ \E i \in DOMAIN Survivors : ~Survivors[i].dayFirst
    /\ \A j \in DOMAIN upload : upload[j].k = "msg" /\ BothOrderings(upload[j].dt)
    /\ Len(pp.messagesData) = 2
    /\ \A i \in DOMAIN pp.messagesData :
          pp.messagesData[i].Timestamp.d = 2 /\ pp.messagesData[i].Timestamp.mo = 3

(***************************************************************************)
(* More properties of Spec.                                                *)
(***************************************************************************)
\* C13: a POST to /analyze/ whose body is larger than the maximum is answered
\* 413 by the middleware and is never handed to analyzeHandler, whether or
\* not it declares its length.
C13_OversizeRejected ==
    \A r \in Requests :
        req[r].bodySize > maxUploadSizeMB => (req[r].pc = "done" /\ req[r].status = 413)

\* a string whose first non-whitespace character is {, whose last is } and
\* which parses as JSON
IsJSONObject(str) ==
    /\ HasPrefix(TrimSpace(str), "{")
    /\ HasSuffix(TrimSpace(str), "}")
    /\ JSONUnmarshalOK(str)

ContentErrors == {"does not look like JSON", "failed validation"}

\* C15: invokeGroq returns without error only with a JSON object; a 200
\* response whose content is non-empty and not a JSON object ends the call
\* with an error and an empty result right after that attempt and is never
\* retried; only a JSON object ever gets into ai_analysis, and a request whose
\* AI branch failed has ai_analysis = null.
C15_OnlyJSONObjectSucceeds ==
    /\ \A w \in Workers :
         /\ (worker[w].pc = "dec" /\ worker[w].calls > 0 /\ worker[w].err = NoError)
               => IsJSONObject(worker[w].result)
         /\ (worker[w].pc = "dec" /\ worker[w].err.kind \in ContentErrors)
               => (worker[w].result = <<>> /\ worker[w].calls = worker[w].attempt)
         /\ worker[w].lastErr.kind \notin ContentErrors
    /\ \A r \in Requests :
         (req[r].pc = "returned" /\ req[r].retErr = "none") =>
            /\ ~req[r].result.v.AIAnalysis.nil => IsJSONObject(req[r].result.v.AIAnalysis.v)
            /\ req[r].aiErr.kind = "AI analysis failed" => req[r].result.v.AIAnalysis.nil

\* a first attempt answered 200 with { } around something that is not JSON:
\* the call is over with an error after one call
C15_Witness ==
    \E w \in Workers :
        /\ worker[w].pc = "dec"
        /\ worker[w].err.kind = "failed validation"
        /\ worker[w].calls = 1
        /\ worker[w].result = <<>>

\* the workers between the increment and the decrement of the counter, those
\* holding a dequeued task, and those waiting for the response of an HTTP call
Counted == {w \in Workers : worker[w].pc \in {"check", "retrywait", "http", "dec"}}
Holding == {w \in Workers : worker[w].pc \notin {"idle", "exited"}}
Calling == {w \in Workers : worker[w].pc = "http"}

\* C16: activeAICallsCount is the number of workers between their increment
\* and their decrement, which are workers holding a dequeued task, so it lies
\* in 0..W; the queue depth lies in 0..W; at most W calls are in flight and
\* at most 2W admitted tasks are unfinished.
C16_ActiveCallsBounded ==
    /\ activeAICallsCount = Cardinality(Counted)
    /\ activeAICallsCount <= Cardinality(Holding)
    /\ activeAICallsCount \in 0..MaxConcurrentAICalls
    /\ Len(aiTaskQueue) \in 0..MaxConcurrentAICalls
    /\ Cardinality(Calling) <= MaxConcurrentAICalls
    /\ Len(aiTaskQueue) + Cardinality(Holding) <= 2 * MaxConcurrentAICalls
    /\ \A r \in Requests : InQueue(r) => ~HeldByWorker(r)

\* every worker in a call while the queue is full
C16_Witness ==
    /\ activeAICallsCount = MaxConcurrentAICalls
    /\ Cardinality(Calling) = MaxConcurrentAICalls
    /\ Len(aiTaskQueue) = MaxConcurrentAICalls

\* C16 as stated: the counter equals the number of workers that have
\* dequeued a task and not yet finished its call
C16_AsStated ==
    activeAICallsCount =
        Cardinality({w \in Workers : worker[w].pc \in {"inc", "check", "retrywait", "http", "dec"}})

\* C17: the result channel of a task takes exactly one tuple from the worker
\* that dequeued the task, before that worker closes it, whatever the
\* requester does meanwhile; so a requester still waiting never finds the
\* channel closed and empty.
C17_OneTupleThenClose ==
    \A r \in Requests :
        /\ resultChan[r].sends <= 1
        /\ Len(resultChan[r].buf) <= resultChan[r].sends
        /\ resultChan[r].closed => resultChan[r].sends = 1
        /\ \A w \in Workers :
              (worker[w].task = r /\ worker[w].pc = "close") => resultChan[r].sends = 1
        /\ (req[r].pc = "await" /\ resultChan[r].closed) => resultChan[r].buf # <<>>
        /\ resultChan[r].sends > 0 => req[r].enqueued

\* a requester that gave up on its context and has been answered, with the
\* tuple of its task sent afterwards and left in the closed channel
C17_Witness ==
    \E r \in Requests :
        /\ req[r].pc = "done"
        /\ req[r].enqueued
        /\ resultChan[r].closed
        /\ Len(resultChan[r].buf) = 1

\* C18: the task channel is closed only once no handler is left that could
\* offer a task: no request handler ever sends on the closed task channel
\* (a send that panics).
C18_NoEnqueueOnClosedQueue ==
    \A r \in Requests : req[r].retErr # "panic"

\* the failures after which invokeGroq goes on to another attempt
RetryableKinds ==
    {"HTTP request failed", "failed to read response body", "API error (429 or 5xx)",
     "no valid choices"}

\* C19: one task makes at most retryAttempts HTTP calls, one per attempt; a
\* worker waits for or makes a further attempt only after a 429/5xx status, a
\* network or body-read error that is not a context error, or a 200 response
\* without choices or content; any other non-2xx status ends the call with an
\* error right after the attempt that received it.
C19_BoundedRetries ==
    \A w \in Workers :
        /\ worker[w].attempt <= retryAttempts
        /\ worker[w].calls <= retryAttempts
        /\ worker[w].calls <= worker[w].attempt
        /\ (worker[w].pc \in {"retrywait", "http"} /\ worker[w].attempt > 1) =>
              /\ worker[w].lastErr.kind \in RetryableKinds
              /\ worker[w].lastErr.wraps = "none"
              /\ worker[w].calls = worker[w].attempt - 1
        /\ worker[w].lastErr.kind # "API error (other status)"
        /\ (worker[w].pc = "dec" /\ worker[w].err.kind = "API error (other status)") =>
              (worker[w].result = <<>> /\ worker[w].calls = worker[w].attempt)

\* a task that used all its attempts on 429/5xx responses
C19_Witness ==
    \E w \in Workers :
        /\ worker[w].pc = "dec"
        /\ worker[w].calls = retryAttempts
        /\ worker[w].err.kind = "API error (429 or 5xx)"

\* a step in which worker w decides on an HTTP attempt
StartsAttempt(w) == worker[w].pc # "http" /\ worker'[w].pc = "http"

\* a worker never decides on an HTTP attempt for a task whose context is done,
\* and a worker found in the retry wait with the context done leaves it by
\* returning
NoAttemptOnceDone ==
    \A w \in Workers :
        /\ StartsAttempt(w) => ctx[worker[w].task] = "live"
        /\ (worker[w].pc = "retrywait" /\ ctx[worker[w].task] # "live"
              /\ worker'[w] # worker[w]) => worker'[w].pc = "dec"

\* what invokeGroq returns when the context stopped it before an attempt
StoppedByContext ==
    \A w \in Workers :
        worker[w].pc = "dec" =>
            /\ worker[w].err.kind = "ctx before call" =>
                  /\ worker[w].calls = 0
                  /\ worker[w].err.wraps \in {"canceled", "deadline"}
            /\ worker[w].err.kind = "ctx after previous error" =>
                  worker[w].calls = worker[w].attempt - 1
            /\ worker[w].err.kind = "ctx during retry wait" =>
                  /\ worker[w].calls = worker[w].attempt - 1
                  /\ worker[w].err.wraps \in {"canceled", "deadline"}
                  /\ worker[w].err.last \in RetryableKinds

\* C20: once the context of a task is cancelled or past its deadline no new
\* HTTP attempt is decided on for it; a task dequeued with its context done
\* returns without any call, and a cancellation during the wait between two
\* attempts ends the call without another one, with an error that wraps the
\* context error and carries the last API error.
C20_NoAttemptAfterCancel == []StoppedByContext /\ [][NoAttemptOnceDone]_vars

\* a call ended by a cancellation during the retry wait, after one HTTP call
C20_Witness ==
    \E w \in Workers :
        /\ worker[w].pc = "dec"
        /\ worker[w].err.kind = "ctx during retry wait"
        /\ worker[w].calls = 1
        /\ worker[w].result = <<>>

(***************************************************************************)
(* Properties of SpecRace.                                                 *)
(***************************************************************************)
\* C21: the sequence calculateChatStatistics reads is never modified while a
\* worker runs the topic segmenter on the same request, and the statistics
\* returned are those of the records in file order.
C21_StatsInputUnmodified ==
    /\ st.messagesData = st.fileOrder
    /\ st.pc = "done" =>
          st.stats \in {out.stats : out \in calculateChatStatistics(st.fileOrder,
                                                                    st.convoBreakMinutes)}

(***************************************************************************)
(* More properties of SpecStats.                                           *)
(***************************************************************************)
\* the gap in seconds between record i and the record before it
GapBefore(i) == SubSeconds(st.messagesData[i].Timestamp, st.messagesData[i - 1].Timestamp)

SortedByTime == \A i \in 2..Len(st.messagesData) : GapBefore(i) >= 0

\* the records at which the statistics pass started a conversation
ConvoStartSet == {st.s.convoStarts[k] : k \in DOMAIN st.s.convoStarts}

\* C22: a record other than the first starts a conversation, and counts as a
\* start of its sender, exactly when the gap to the record before it is
\* greater than or equal to convoBreakMinutes; on records sorted by time the
\* conversations of the statistics pass start where the topics of the
\* segmenter start for the same threshold.
C22_ConvoBreakAtThreshold ==
    st.pc = "done" =>
        /\ \A i \in 2..Len(st.messagesData) :
              i \in ConvoStartSet <=> GapBefore(i) >= st.convoBreakMinutes * 60
        /\ \A u \in UserSet(st.messagesData) :
              Get(st.s.userStartsConvo, u) =
                  Cardinality({i \in ConvoStartSet : st.messagesData[i].Sender = u})
        /\ SortedByTime =>
              ConvoStartSet = TopicStarts(st.messagesData, st.convoBreakMinutes * 60)

\* the records whose sender differs from the sender of the record before
SenderChanges ==
    {i \in 2..Len(st.messagesData) : st.messagesData[i].Sender # st.messagesData[i - 1].Sender}

MatrixCell(a, b) ==
    IF a \in DOMAIN st.s.interactionMatrix THEN Get(st.s.interactionMatrix[a], b) ELSE 0

MatrixSum ==
    SetSum([pair \in Senders \X Senders |-> MatrixCell(pair[1], pair[2])], Senders \X Senders)

\* C23: every pair of consecutive records with different senders adds one to
\* the cell (previous sender, current sender), whether or not the gap between
\* them starts a conversation; the cells sum to the number of sender changes.
C23_MatrixCountsEverySenderChange ==
    st.pc = "done" =>
        /\ \A a \in Senders, b \in Senders :
              MatrixCell(a, b) =
                  Cardinality({i \in SenderChanges : st.messagesData[i - 1].Sender = a
                                                     /\ st.messagesData[i].Sender = b})
        /\ MatrixSum = Cardinality(SenderChanges)

\* the eligible gaps: between consecutive records of different senders,
\* longer than 5 seconds and shorter than 12 hours
EligibleGaps == {i \in SenderChanges : GapBefore(i) > 5 /\ GapBefore(i) < 12 * 3600}

EligibleGapTotal == SetSum([i \in EligibleGaps |-> GapBefore(i)], EligibleGaps)

\* C24: average_response_time_minutes is the mean of all eligible gaps, those
\* longer than the conversation break included, rounded to two decimals (in
\* hundredths of a minute); it is 0 when there is no eligible gap.
C24_AverageOverAllEligibleGaps ==
    st.pc = "done" =>
        st.stats.AverageResponseTimeMinutes =
            IF EligibleGaps = {} THEN 0
            ELSE RoundDiv(EligibleGapTotal * 100, Cardinality(EligibleGaps) * 60)

(***************************************************************************)
(* Properties of SpecBreak.  Percentiles are in hundredths of the unit of  *)
(* the sample.                                                             *)
(***************************************************************************)
\* the linear interpolation at rank (p/100)(n+1) on the sorted sample
InterpolatedPercentile(sortedData, p) ==
    LET n == Len(sortedData)
        k == (p * (n + 1)) \div 100
        d100 == (p * (n + 1)) % 100
    IN IF k = 0 THEN sortedData[1] * 100
       ELSE IF k >= n THEN sortedData[n] * 100
       ELSE sortedData[k] * 100 + d100 * (sortedData[k + 1] - sortedData[k])

\* C26: for a sorted sample of n >= 1 values and 0 < p < 100,
\* calculatePercentile returns the linear interpolation at rank
\* r = (p/100)(n+1) between the samples k = floor(r) and k+1 (the first sample
\* when k = 0, the last when k >= n); for a fractional rank between two
\* different samples the result lies strictly between them.
C26_PercentileInterpolates ==
    (brk.pc = "percentile done" /\ brk.sortedData # <<>> /\ brk.p > 0 /\ brk.p < 100) =>
        LET n == Len(brk.sortedData)
            k == (brk.p * (n + 1)) \div 100
            d100 == (brk.p * (n + 1)) % 100
        IN /\ brk.result = InterpolatedPercentile(brk.sortedData, brk.p)
           /\ (k >= 1 /\ k < n /\ d100 > 0 /\ brk.sortedData[k] < brk.sortedData[k + 1]) =>
                 /\ brk.sortedData[k] * 100 < brk.result
                 /\ brk.result < brk.sortedData[k + 1] * 100

\* the eligible gaps of the input of calculateDynamicConvoBreak, in seconds
BreakEligibleGaps == ResponseTimes(brk.messagesData, 2)

\* C25: calculateDynamicConvoBreak(msgs, 120, 30, 300) returns 120 when
\* fewer than 20 gaps are eligible; otherwise it returns the 85th percentile
\* of the eligible gaps in minutes (interpolated at rank 0.85(n+1)) plus 30,
\* clamped into [30, 300] and rounded to a whole minute; the result always
\* lies in [30, 300].
C25_DynamicBreak ==
    brk.pc = "break done" =>
        /\ brk.result \in 30..300
        /\ Len(BreakEligibleGaps) < minResponseTimes => brk.result = 120
        /\ Len(BreakEligibleGaps) >= minResponseTimes =>
              brk.result =
                  RoundDiv(Max(30 * 6000,
                               Min(InterpolatedPercentile(SortFloat64s(BreakEligibleGaps), 85)
                                      + 30 * 6000,
                                   300 * 6000)),
                           6000)

(***************************************************************************)
(* Further properties of SpecParse.                                        *)
(***************************************************************************)
\* the lines that match the header grammar, pass the system/media filter and
\* whose timestamp parses with the layouts of the main pass
QualifyingLines ==
    {i \in DOMAIN upload :
        /\ upload[i].k = "msg"
        /\ ~IsSystemMessage(upload[i].body)
        /\ ~IsMedia(upload[i].body)
        /\ FirstParse(ChooseLayouts(upload), upload[i].dt).ok}

\* the line "[2/3/24, 10:00] A: hi": nothing of its body survives the cleaning
OnlyShortWords == <<MsgLine(AmbigDT, 2, <<"stop", "short">>)>>

\* C27: every line that matches the header grammar, passes the system/media
\* filter and whose timestamp parses is an accepted record, also when its
\* cleaned text is empty; the upload of the single line "[2/3/24, 10:00] A: hi"
\* comes back with statistics, days_active = 1 and peak_hour = 10.
C27_EmptyCleanedTextAccepted ==
    /\ (pp.pc = "parsed" /\ ~pp.err) => Len(pp.messagesData) = Cardinality(QualifyingLines)
    /\ (pp.pc = "analyzed" /\ upload = OnlyShortWords) =>
          /\ ~pp.result.Stats.nil
          /\ pp.result.Stats.v.DaysActive = 1
          /\ pp.result.Stats.v.PeakHour = 10

\* the day/month orderings under which the accepted records were parsed
OrderingsUsed == {pp.messagesData[i].dayFirst : i \in DOMAIN pp.messagesData}

\* C29: all accepted records of one upload were parsed with the same
\* day/month ordering, also when the sniffing fails and every line is tried
\* against the global layout list.
C29_OneOrderingPerUpload ==
    pp.pc \in {"scan", "parsed", "analyzed"} => Cardinality(OrderingsUsed) <= 1

(***************************************************************************)
(* Properties of SpecKeys.                                                 *)
(***************************************************************************)
PrimaryKeySet == {keys.primaryKeyIndices[j] : j \in DOMAIN keys.primaryKeyIndices}

\* C28: under any interleaving of the calls sharing the cursor, one call
\* hands no primary key to invokeGroq twice, and it tries the fallback key at
\* most once, last, and only after it has tried every configured primary key.
C28_EveryPrimaryOnceThenFallback ==
    \A c \in Callers :
        LET tried == client[c].tried
        IN /\ \A a \in DOMAIN tried, b \in DOMAIN tried :
                 (a # b /\ tried[a] # FallbackKeyName) => tried[a] # tried[b]
           /\ \A a \in DOMAIN tried :
                 tried[a] = FallbackKeyName =>
                    /\ a = Len(tried)
                    /\ {tried[b] : b \in 1..(a - 1)} = PrimaryKeySet

(***************************************************************************)
(* Properties of SpecLive.                                                 *)
(***************************************************************************)
\* the task of request r has been put on the queue
Admitted(r) == req[r].enqueued

\* the task of request r has got its result tuple and its channel is closed
Served(r) == resultChan[r].closed /\ resultChan[r].sends = 1

\* C30: with the workers scheduled fairly and every LLM call returning, every
\* task put on the queue is eventually served (its tuple sent, its result
\* channel closed), whether or not its requester is still there and also
\* when it was still buffered at the close of the queue; a worker at the
\* delivery of a result always gets back to the head of its loop; once the
\* queue is closed every worker eventually exits.
C30_EveryAdmittedTaskServed ==
    /\ \A r \in Requests : Admitted(r) ~> Served(r)
    /\ \A w \in Workers : (worker[w].pc = "send") ~> (worker[w].pc \in {"idle", "exited"})
    /\ queueClosed ~> (\A w \in Workers : worker[w].pc = "exited")

====
